---------------------------- MODULE Spec2Model ----------------------------
(***************************************************************************)
(* Model of the computation layer of the supply-chain toolkit:             *)
(*   - compute_eoq (src/pages/1_Inventory_Toolkit_EOQ.py and src/app.py),  *)
(*   - _pct_bins_classifier, abc_on_column and the primary Sales ABC of    *)
(*     the Product segmentation (src/pages/2_Segmentation_Toolkit.py).     *)
(*                                                                         *)
(* Python floats are modelled as follows.  A finite float is an exact real *)
(* number of the form a + b*sqrt(r) with a, b, r rational (the only square *)
(* root the program takes is the one of compute_eoq, so one radicand per   *)
(* call is enough); rounding and overflow of finite values are abstracted  *)
(* away.  The special values inf, -inf and nan follow IEEE-754 as Python   *)
(* exposes it, and the two exceptions float arithmetic raises in Python    *)
(* (ZeroDivisionError of "/", ValueError of math.sqrt) are values that     *)
(* poison every later operation, so that the first one raised is the one   *)
(* the call ends with.                                                     *)
(***************************************************************************)
EXTENDS Integers, Sequences, FiniteSets, TLC

---------------------------------------------------------------------------
(* Rational numbers: <<n, d>> with d > 0 and gcd(n, d) = 1.                *)

Abs(i) == IF i < 0 THEN -i ELSE i

RECURSIVE Gcd(_, _)
Gcd(i, j) == IF j = 0 THEN i ELSE Gcd(j, i % j)

Rat(n, d) ==
    LET s == IF d < 0 THEN -1 ELSE 1
        g == Gcd(Abs(n), Abs(d))
    IN  <<(s * n) \div g, (s * d) \div g>>

RZero == <<0, 1>>
RAdd(p, q) == Rat(p[1] * q[2] + q[1] * p[2], p[2] * q[2])
RNeg(p) == <<-p[1], p[2]>>
RSub(p, q) == RAdd(p, RNeg(q))
RMul(p, q) == Rat(p[1] * q[1], p[2] * q[2])
RDiv(p, q) == Rat(p[1] * q[2], p[2] * q[1])
RSign(p) == IF p[1] > 0 THEN 1 ELSE IF p[1] < 0 THEN -1 ELSE 0
RLess(p, q) == p[1] * q[2] < q[1] * p[2]

\* Largest i with i * i <= n (n >= 0), by bisection on lo..hi.
RECURSIVE ISqrtIn(_, _, _)
ISqrtIn(n, lo, hi) ==
    IF lo >= hi THEN lo
    ELSE LET mid == (lo + hi + 1) \div 2
         IN  IF mid * mid <= n THEN ISqrtIn(n, mid, hi)
                               ELSE ISqrtIn(n, lo, mid - 1)

ISqrt(n) == ISqrtIn(n, 0, IF n < 46340 THEN n ELSE 46340)
IsSquare(n) == ISqrt(n) * ISqrt(n) = n

---------------------------------------------------------------------------
(* Python float values, None, and raised exceptions.                       *)
(*   k = "fin"  : the real number a + b*sqrt(r); b = 0 implies r = 0       *)
(*   k = "inf", "ninf", "nan" : float('inf'), float('-inf'), float('nan')  *)
(*   k = "None" : Python's None                                            *)
(*   k = "ZeroDivisionError", "ValueError" : the operation raised          *)
(* Every operation evaluates its operands once, as Python does, before it  *)
(* computes with them (the operands named x0, y0 are the expressions, x, y *)
(* their values).                                                          *)

Val(k, a, b, r) == [k |-> k, a |-> a, b |-> b, r |-> r]
FinQ(a, b, r) == IF b = RZero THEN Val("fin", a, RZero, RZero) ELSE Val("fin", a, b, r)
FinR(p) == Val("fin", p, RZero, RZero)
Fin(i) == FinR(<<i, 1>>)
Frac(n, d) == FinR(Rat(n, d))
PInf == Val("inf", RZero, RZero, RZero)
NInf == Val("ninf", RZero, RZero, RZero)
NaN == Val("nan", RZero, RZero, RZero)
None == Val("None", RZero, RZero, RZero)
ZeroDivisionError == Val("ZeroDivisionError", RZero, RZero, RZero)
MathDomainError == Val("ValueError", RZero, RZero, RZero)

IsExc(x0) ==
    CHOOSE out \in {(
        "k" \in DOMAIN x /\ x.k \in {"ZeroDivisionError", "ValueError"}
        ) : x \in {x0}} : TRUE

IsFinite(x) == x.k = "fin"

IsNonFinite(x) == x.k \in {"inf", "ninf", "nan"}

\* Sign of a + b*sqrt(r), r > 0 whenever b # 0.  When a and b differ in
\* sign, |a| / |b| is compared with sqrt(r): by their integer parts when
\* these differ, by the squares otherwise.
Sign(x0) ==
    CHOOSE out \in {(
        LET sa == RSign(x.a)
            sb == RSign(x.b)
            q == RDiv(<<Abs(x.a[1]), x.a[2]>>, <<Abs(x.b[1]), x.b[2]>>)
            m == q[1] \div q[2]
            s == ISqrt(x.r[1] \div x.r[2])
        IN  IF sb = 0 THEN sa
            ELSE IF sa = 0 THEN sb
            ELSE IF sa = sb THEN sa
            ELSE IF m > s THEN sa
            ELSE IF m < s THEN sb
            ELSE IF RLess(x.r, RMul(q, q)) THEN sa
            ELSE IF RLess(RMul(q, q), x.r) THEN sb
            ELSE 0
        ) : x \in {x0}} : TRUE

\* Sign of any float: -1, 0, 1 (nan has none and is handled by the callers).
SignX(x0) ==
    CHOOSE out \in {(
        IF x.k = "inf" THEN 1 ELSE IF x.k = "ninf" THEN -1 ELSE Sign(x)
        ) : x \in {x0}} : TRUE

InfOfSign(s) == IF s > 0 THEN PInf ELSE NInf

\* The radicand two finite operands share.
Rad(x, y) == IF x.b # RZero THEN x.r ELSE y.r

Neg(x0) ==
    CHOOSE out \in {(
        IF IsExc(x) \/ x.k = "nan" THEN x
        ELSE IF x.k = "inf" THEN NInf
        ELSE IF x.k = "ninf" THEN PInf
        ELSE FinQ(RNeg(x.a), RNeg(x.b), x.r)
        ) : x \in {x0}} : TRUE

Add(x0, y0) ==
    CHOOSE out \in {(
        IF IsExc(x) THEN x
        ELSE IF IsExc(y) THEN y
        ELSE IF x.k = "nan" \/ y.k = "nan" THEN NaN
        ELSE IF x.k = "fin" /\ y.k = "fin"
             THEN FinQ(RAdd(x.a, y.a), RAdd(x.b, y.b), Rad(x, y))
        ELSE IF x.k = "fin" THEN y
        ELSE IF y.k = "fin" THEN x
        ELSE IF x.k = y.k THEN x
        ELSE NaN
        ) : x \in {x0}, y \in {y0}} : TRUE

Sub(x, y) == Add(x, Neg(y))

Mul(x0, y0) ==
    CHOOSE out \in {(
        IF IsExc(x) THEN x
        ELSE IF IsExc(y) THEN y
        ELSE IF x.k = "nan" \/ y.k = "nan" THEN NaN
        ELSE IF x.k = "fin" /\ y.k = "fin"
             THEN LET r == Rad(x, y)
                  IN  FinQ(RAdd(RMul(x.a, y.a), RMul(RMul(x.b, y.b), r)),
                           RAdd(RMul(x.a, y.b), RMul(x.b, y.a)), r)
        ELSE IF SignX(x) = 0 \/ SignX(y) = 0 THEN NaN
        ELSE InfOfSign(SignX(x) * SignX(y))
        ) : x \in {x0}, y \in {y0}} : TRUE

\* Python's float "/": a zero divisor raises, whatever the dividend.
Div(x0, y0) ==
    CHOOSE out \in {(
        IF IsExc(x) THEN x
        ELSE IF IsExc(y) THEN y
        ELSE IF y.k = "fin" /\ Sign(y) = 0 THEN ZeroDivisionError
        ELSE IF x.k = "nan" \/ y.k = "nan" THEN NaN
        ELSE IF x.k = "fin" /\ y.k = "fin"
             THEN LET r == Rad(x, y)
                      den == RSub(RMul(y.a, y.a), RMul(RMul(y.b, y.b), r))
                      conj == FinQ(RDiv(y.a, den), RDiv(RNeg(y.b), den), r)
                  IN  Mul(x, conj)
        ELSE IF x.k = "fin" THEN Fin(0)
        ELSE IF y.k = "fin" THEN InfOfSign(SignX(x) * SignX(y))
        ELSE NaN
        ) : x \in {x0}, y \in {y0}} : TRUE

\* math.sqrt: nan -> nan, inf -> inf, a negative argument (or -inf) raises
\* ValueError("math domain error").  The argument is rational when finite.
Sqrt(x0) ==
    CHOOSE out \in {(
        IF IsExc(x) THEN x
        ELSE IF x.k = "nan" THEN NaN
        ELSE IF x.k = "inf" THEN PInf
        ELSE IF x.k = "ninf" THEN MathDomainError
        ELSE IF Sign(x) < 0 THEN MathDomainError
        ELSE IF Sign(x) = 0 THEN Fin(0)
        ELSE IF IsSquare(x.a[1]) /\ IsSquare(x.a[2])
             THEN FinR(<<ISqrt(x.a[1]), ISqrt(x.a[2])>>)
        ELSE FinQ(RZero, <<1, 1>>, x.a)
        ) : x \in {x0}} : TRUE

\* Comparisons of floats: every comparison with nan is False.
Lt(x0, y0) ==
    CHOOSE out \in {(
        IF x.k = "nan" \/ y.k = "nan" THEN FALSE
        ELSE IF x.k = "ninf" THEN y.k # "ninf"
        ELSE IF y.k = "inf" THEN x.k # "inf"
        ELSE IF x.k = "inf" \/ y.k = "ninf" THEN FALSE
        ELSE Sign(Sub(y, x)) > 0
        ) : x \in {x0}, y \in {y0}} : TRUE

Eq(x0, y0) ==
    CHOOSE out \in {(
        IF x.k = "nan" \/ y.k = "nan" THEN FALSE
        ELSE IF x.k = "fin" /\ y.k = "fin" THEN Sign(Sub(y, x)) = 0
        ELSE x.k = y.k
        ) : x \in {x0}, y \in {y0}} : TRUE

Le(x0, y0) ==
    CHOOSE out \in {(
        Lt(x, y) \/ Eq(x, y)
        ) : x \in {x0}, y \in {y0}} : TRUE

Gt(x, y) == Lt(y, x)

\* bool(x): None and 0.0 are falsy, every other float (nan too) is truthy.
Truthy(x0) ==
    CHOOSE out \in {(
        IF x.k = "None" THEN FALSE
        ELSE IF x.k = "fin" THEN Sign(x) # 0
        ELSE TRUE
        ) : x \in {x0}} : TRUE

---------------------------------------------------------------------------
(* compute_eoq of src/pages/1_Inventory_Toolkit_EOQ.py, statement by       *)
(* statement.  A call ends in an outcome: a returned dict (kind "return")  *)
(* or a raised exception (kind "raise", with its type and message).        *)
(* An assignment "name = value" is "\E name \in {value} :", which computes  *)
(* the value once and runs the rest of the body with the name bound to it; *)
(* the function is the relation between its arguments and its outcome.     *)

NoResult == [result |-> "no result"]
NotCalled == [kind |-> "not called", exc |-> "", msg |-> "", res |-> NoResult]
Return(res) == [kind |-> "return", exc |-> "", msg |-> "", res |-> res]
Raise(exc, msg) == [kind |-> "raise", exc |-> exc, msg |-> msg, res |-> NoResult]

PositiveMessage == "D, C and h_rate must be positive numbers."

\* The exception a poisoned float value stands for.
RaiseOf(x) ==
    IF x.k = "ZeroDivisionError" THEN Raise("ZeroDivisionError", "float division by zero")
    ELSE Raise("ValueError", "math domain error")

\* Mutant of NotPositive: "<" for "<=", so that a zero parameter passes.
NotPositiveStrict(D, C, h_rate) == Lt(D, Fin(0)) \/ Lt(C, Fin(0)) \/ Lt(h_rate, Fin(0))

\* line 32: if D <= 0 or C <= 0 or h_rate <= 0
NotPositive(D, C, h_rate) == Le(D, Fin(0)) \/ Le(C, Fin(0)) \/ Le(h_rate, Fin(0))

\* line 34: h = h_rate * C
HoldingPerUnit(h_rate, C) == Mul(h_rate, C)

QStarWithoutTwo(D, S, h) == Sqrt(Div(Mul(D, S), h))

\* line 35: Q_star = math.sqrt((2 * D * S) / h)
QStar(D, S, h) == Sqrt(Div(Mul(Mul(Fin(2), D), S), h))

\* line 36: ordering_cost = (D / Q_star) * S
OrderingCost(D, Q, S) == Mul(Div(D, Q), S)

\* line 37: holding_cost = (Q_star / 2.0) * h
HoldingCost(Q, h) == Mul(Div(Q, Fin(2)), h)

\* line 39: t_months = (Q_star / D) * 12.0 if D else 0.0
TMonths(Q, D) == IF Truthy(D) THEN Mul(Div(Q, D), Fin(12)) ELSE Fin(0)

\* line 40: t_days = t_months * 30.4375
TDays(t_months) == Mul(t_months, Frac(487, 16))

\* line 41: ROP = (D / 12.0) * lead_time_months
ReorderPoint(D, lead_time_months) == Mul(Div(D, Fin(12)), lead_time_months)

\* Mutant of DiscountApplies: the upper bound of the rate is not checked.
DiscountAppliesAnyRate(discount_enabled, discount_Q, discount_rate) ==
    /\ discount_enabled
    /\ Truthy(discount_Q)
    /\ Gt(discount_Q, Fin(0))
    /\ Lt(Fin(0), discount_rate)

\* line 47: if discount_enabled and discount_Q and discount_Q > 0
\*                              and 0 < discount_rate < 1
DiscountApplies(discount_enabled, discount_Q, discount_rate) ==
    /\ discount_enabled
    /\ Truthy(discount_Q)
    /\ Gt(discount_Q, Fin(0))
    /\ Lt(Fin(0), discount_rate)
    /\ Lt(discount_rate, Fin(1))

\* Mutant of NewPrice: the price is left undiscounted.
NewPriceUndiscounted(C, discount_rate) == C

\* line 48: new_price = C * (1 - discount_rate)
NewPrice(C, discount_rate) == Mul(C, Sub(Fin(1), discount_rate))

\* line 50: ordering_cost_disc = (D / discount_Q) * S
OrderingCostDisc(D, discount_Q, S) == Mul(Div(D, discount_Q), S)

\* lines 49, 51: h_disc = h_rate * new_price;
\*               holding_cost_disc = (discount_Q / 2.0) * h_disc
HoldingCostDisc(discount_Q, h_rate, new_price) ==
    Mul(Div(discount_Q, Fin(2)), Mul(h_rate, new_price))

\* Mutant of Accept: "<=" for "<", so that a tie is accepted.
AcceptOnTie(total_disc, total_base) == Le(total_disc, total_base)

\* line 55: accept = total_disc < total_base
Accept(total_disc, total_base) == Lt(total_disc, total_base)

\* line 56: annual_savings = total_base - total_disc
AnnualSavings(total_base, total_disc) == Sub(total_base, total_disc)

\* lines 70-82: the results dict.
ResultsOfDiscount(Q_star, h, ordering_cost, holding_cost, TLC_, t_months, t_days, ROP, base_purchase, total_base, discount) ==
    [EOQ |-> Q_star,
     h |-> h,
     OrderingCost |-> ordering_cost,
     HoldingCost |-> holding_cost,
     TLC |-> TLC_,
     t_months |-> t_months,
     t_days |-> t_days,
     ROP |-> ROP,
     purchase_base |-> base_purchase,
     total_base |-> IF discount # None THEN discount.total_disc ELSE total_base,
     discount |-> discount]

Results(Q_star, h, ordering_cost, holding_cost, TLC_, t_months, t_days, ROP, base_purchase, total_base, discount) ==
    [EOQ |-> Q_star,
     h |-> h,
     OrderingCost |-> ordering_cost,
     HoldingCost |-> holding_cost,
     TLC |-> TLC_,
     t_months |-> t_months,
     t_days |-> t_days,
     ROP |-> ROP,
     purchase_base |-> base_purchase,
     total_base |-> total_base,
     discount |-> discount]

\* lines 30-83: outcome is what the call compute_eoq(D, ..., discount_rate) ends
\* with.  The statements that can raise are those of lines 33, 35, 36, 39 and
\* 50; the first one that raises ends the call.
compute_eoq(outcome, D, C, S, h_rate, lead_time_months, discount_enabled, discount_Q, discount_rate) ==
    IF NotPositive(D, C, h_rate) THEN outcome = Raise("ValueError", PositiveMessage) ELSE
    \E h \in {HoldingPerUnit(h_rate, C)} :
    \E Q_star \in {QStar(D, S, h)} :
    IF IsExc(Q_star) THEN outcome = RaiseOf(Q_star) ELSE
    \E ordering_cost \in {OrderingCost(D, Q_star, S)} :
    IF IsExc(ordering_cost) THEN outcome = RaiseOf(ordering_cost) ELSE
    \E holding_cost \in {HoldingCost(Q_star, h)} :
    \E TLC_ \in {Add(ordering_cost, holding_cost)} :
    \E t_months \in {TMonths(Q_star, D)} :
    IF IsExc(t_months) THEN outcome = RaiseOf(t_months) ELSE
    \E t_days \in {TDays(t_months)} :
    \E ROP \in {ReorderPoint(D, lead_time_months)} :
    \E base_purchase \in {Mul(D, C)} :
    \E total_base \in {Add(base_purchase, TLC_)} :
    IF ~DiscountApplies(discount_enabled, discount_Q, discount_rate)
    THEN outcome = Return(Results(Q_star, h, ordering_cost, holding_cost, TLC_, t_months,
                                  t_days, ROP, base_purchase, total_base, None))
    ELSE
    \E new_price \in {NewPrice(C, discount_rate)} :
    \E ordering_cost_disc \in {OrderingCostDisc(D, discount_Q, S)} :
    IF IsExc(ordering_cost_disc) THEN outcome = RaiseOf(ordering_cost_disc) ELSE
    \E holding_cost_disc \in {HoldingCostDisc(discount_Q, h_rate, new_price)} :
    \E TLC_disc \in {Add(ordering_cost_disc, holding_cost_disc)} :
    \E purchase_disc \in {Mul(D, new_price)} :
    \E total_disc \in {Add(purchase_disc, TLC_disc)} :
    \E discount \in {[discount_Q |-> discount_Q,
                     discount_rate |-> discount_rate,
                     new_price |-> new_price,
                     ordering_cost_disc |-> ordering_cost_disc,
                     holding_cost_disc |-> holding_cost_disc,
                     TLC_disc |-> TLC_disc,
                     purchase_disc |-> purchase_disc,
                     total_disc |-> total_disc,
                     accept |-> Accept(total_disc, total_base),
                     annual_savings |-> AnnualSavings(total_base, total_disc)]} :
        outcome = Return(Results(Q_star, h, ordering_cost, holding_cost, TLC_, t_months,
                                 t_days, ROP, base_purchase, total_base, discount))

---------------------------------------------------------------------------
(* compute_eoq of src/app.py (the second copy of the function), statement  *)
(* by statement.                                                           *)

\* line 25: if D <= 0 or C <= 0 or h_rate <= 0
NotPositiveApp(D, C, h_rate) == Le(D, Fin(0)) \/ Le(C, Fin(0)) \/ Le(h_rate, Fin(0))

\* line 27: h = h_rate * C
HoldingPerUnitApp(h_rate, C) == Mul(h_rate, C)

\* line 28: Q_star = math.sqrt((2 * D * S) / h)
QStarApp(D, S, h) == Sqrt(Div(Mul(Mul(Fin(2), D), S), h))

\* line 29: ordering_cost = (D / Q_star) * S
OrderingCostApp(D, Q, S) == Mul(Div(D, Q), S)

\* line 30: holding_cost = (Q_star / 2.0) * h
HoldingCostApp(Q, h) == Mul(Div(Q, Fin(2)), h)

\* line 32: t_months = (Q_star / D) * 12.0 if D else 0.0
TMonthsApp(Q, D) == IF Truthy(D) THEN Mul(Div(Q, D), Fin(12)) ELSE Fin(0)

\* line 33: t_days = t_months * 30.4375
TDaysAppOf30(t_months) == Mul(t_months, Fin(30))

TDaysApp(t_months) == Mul(t_months, Frac(487, 16))

\* line 34: ROP = (D / 12.0) * lead_time_months
ReorderPointApp(D, lead_time_months) == Mul(Div(D, Fin(12)), lead_time_months)

\* line 40: if discount_enabled and discount_Q and discount_Q > 0
\*                              and 0 < discount_rate < 1
DiscountAppliesApp(discount_enabled, discount_Q, discount_rate) ==
    /\ discount_enabled
    /\ Truthy(discount_Q)
    /\ Gt(discount_Q, Fin(0))
    /\ Lt(Fin(0), discount_rate)
    /\ Lt(discount_rate, Fin(1))

\* line 41: new_price = C * (1 - discount_rate)
NewPriceApp(C, discount_rate) == Mul(C, Sub(Fin(1), discount_rate))

\* line 43: ordering_cost_disc = (D / discount_Q) * S
OrderingCostDiscApp(D, discount_Q, S) == Mul(Div(D, discount_Q), S)

\* lines 42, 44: h_disc = h_rate * new_price;
\*               holding_cost_disc = (discount_Q / 2.0) * h_disc
HoldingCostDiscApp(discount_Q, h_rate, new_price) ==
    Mul(Div(discount_Q, Fin(2)), Mul(h_rate, new_price))

\* line 48: accept = total_disc < total_base
AcceptApp(total_disc, total_base) == Lt(total_disc, total_base)

\* line 49: annual_savings = total_base - total_disc
AnnualSavingsApp(total_base, total_disc) == Sub(total_base, total_disc)

\* lines 63-75: the results dict.
ResultsApp(Q_star, h, ordering_cost, holding_cost, TLC_, t_months, t_days, ROP, base_purchase, total_base, discount) ==
    [EOQ |-> Q_star,
     h |-> h,
     OrderingCost |-> ordering_cost,
     HoldingCost |-> holding_cost,
     TLC |-> TLC_,
     t_months |-> t_months,
     t_days |-> t_days,
     ROP |-> ROP,
     purchase_base |-> base_purchase,
     total_base |-> total_base,
     discount |-> discount]

\* lines 23-76: outcome is what the call compute_eoq(D, ..., discount_rate) ends
\* with.  The statements that can raise are those of lines 26, 28, 29, 32 and
\* 43; the first one that raises ends the call.
app_compute_eoq(outcome, D, C, S, h_rate, lead_time_months, discount_enabled, discount_Q, discount_rate) ==
    IF NotPositiveApp(D, C, h_rate) THEN outcome = Raise("ValueError", PositiveMessage) ELSE
    \E h \in {HoldingPerUnitApp(h_rate, C)} :
    \E Q_star \in {QStarApp(D, S, h)} :
    IF IsExc(Q_star) THEN outcome = RaiseOf(Q_star) ELSE
    \E ordering_cost \in {OrderingCostApp(D, Q_star, S)} :
    IF IsExc(ordering_cost) THEN outcome = RaiseOf(ordering_cost) ELSE
    \E holding_cost \in {HoldingCostApp(Q_star, h)} :
    \E TLC_ \in {Add(ordering_cost, holding_cost)} :
    \E t_months \in {TMonthsApp(Q_star, D)} :
    IF IsExc(t_months) THEN outcome = RaiseOf(t_months) ELSE
    \E t_days \in {TDaysApp(t_months)} :
    \E ROP \in {ReorderPointApp(D, lead_time_months)} :
    \E base_purchase \in {Mul(D, C)} :
    \E total_base \in {Add(base_purchase, TLC_)} :
    IF ~DiscountAppliesApp(discount_enabled, discount_Q, discount_rate)
    THEN outcome = Return(ResultsApp(Q_star, h, ordering_cost, holding_cost, TLC_, t_months,
                                  t_days, ROP, base_purchase, total_base, None))
    ELSE
    \E new_price \in {NewPriceApp(C, discount_rate)} :
    \E ordering_cost_disc \in {OrderingCostDiscApp(D, discount_Q, S)} :
    IF IsExc(ordering_cost_disc) THEN outcome = RaiseOf(ordering_cost_disc) ELSE
    \E holding_cost_disc \in {HoldingCostDiscApp(discount_Q, h_rate, new_price)} :
    \E TLC_disc \in {Add(ordering_cost_disc, holding_cost_disc)} :
    \E purchase_disc \in {Mul(D, new_price)} :
    \E total_disc \in {Add(purchase_disc, TLC_disc)} :
    \E discount \in {[discount_Q |-> discount_Q,
                     discount_rate |-> discount_rate,
                     new_price |-> new_price,
                     ordering_cost_disc |-> ordering_cost_disc,
                     holding_cost_disc |-> holding_cost_disc,
                     TLC_disc |-> TLC_disc,
                     purchase_disc |-> purchase_disc,
                     total_disc |-> total_disc,
                     accept |-> AcceptApp(total_disc, total_base),
                     annual_savings |-> AnnualSavingsApp(total_base, total_disc)]} :
        outcome = Return(ResultsApp(Q_star, h, ordering_cost, holding_cost, TLC_, t_months,
                                 t_days, ROP, base_purchase, total_base, discount))

---------------------------------------------------------------------------
(* quicksort_ties is the order in which the installed sort leaves rows of  *)
(* equal value: sort_values is called with its default kind, quicksort,    *)
(* which is not stable, so the order depends on the build, but it is the   *)
(* same at every call of a session.                                        *)

VARIABLE quicksort_ties

---------------------------------------------------------------------------
(* The segmentation page, src/pages/2_Segmentation_Toolkit.py.  A table is *)
(* a sequence of rows, a row a record of cells.  A cell is a number, a     *)
(* text that is not a number, or a missing value.  Cell numbers are        *)
(* integers and percentages are exact rationals.                           *)

NumCell(n) == [t |-> "num", v |-> n]
TextCell == [t |-> "text", v |-> 0]
NaNCell == [t |-> "nan", v |-> 0]

\* pd.to_numeric(column, errors="coerce"), cell by cell
to_numeric(c) == IF c.t = "num" THEN c ELSE NaNCell

\* column.fillna(n), cell by cell
fillna_other_value(c, n) == IF c.t = "nan" THEN NumCell(n + 1) ELSE c

fillna(c, n) == IF c.t = "nan" THEN NumCell(n) ELSE c

NoneSelected == "(none)"

col_selected(name) == name # NoneSelected

RECURSIVE SumTo(_, _)
SumTo(f, n) == IF n = 0 THEN 0 ELSE SumTo(f, n - 1) + f[n]

\* column.sum()
ColumnSum(rows, col) == SumTo([i \in DOMAIN rows |-> rows[i][col]], Len(rows))

\* column.cumsum(), entry i
CumSum(rows, col, i) == SumTo([j \in DOMAIN rows |-> rows[j][col]], i)

\* The keys of a groupby come out in ascending order (sort=True).
RECURSIVE Ascending(_)
Ascending(S) ==
    IF S = {} THEN <<>>
    ELSE LET m == CHOOSE x \in S : \A y \in S : x <= y
         IN <<m>> \o Ascending(S \ {m})

\* An empty key cell of the sheet: read_excel makes it NaN.
MissingKey == 0

\* The groups of groupby(key_col): the distinct keys in ascending order.
\* groupby leaves out the rows whose key is missing (dropna=True).
GroupKeys(rows, key_col) ==
    Ascending({rows[i][key_col] : i \in DOMAIN rows} \ {MissingKey})

GroupFirst(rows, key_col, col, k) ==
    rows[CHOOSE i \in DOMAIN rows :
             /\ rows[i][key_col] = k
             /\ \A j \in DOMAIN rows : rows[j][key_col] = k => i <= j][col]

\* The sum of col over the rows of one group.
GroupSum(rows, key_col, col, k) ==
    SumTo([i \in DOMAIN rows |-> IF rows[i][key_col] = k THEN rows[i][col] ELSE 0],
          Len(rows))

TieOrders == {"input order", "reverse order"}

\* Row i comes before row j after sort_values(col, ascending=False): by col
\* descending, rows of equal value as the installed quicksort leaves them.
Before(rows, col, i, j) ==
    \/ rows[i][col] > rows[j][col]
    \/ /\ rows[i][col] = rows[j][col]
       /\ IF quicksort_ties = "input order" THEN i < j ELSE i > j

\* The order of the rows after the sort: RankOrder(rows, col)[p] is the
\* index of the row that comes out at position p.
RankOrder(rows, col) ==
    [p \in DOMAIN rows |->
        CHOOSE i \in DOMAIN rows :
            Cardinality({j \in DOMAIN rows : Before(rows, col, j, i)}) = p - 1]

sort_values_unsorted(rows, col) == rows

sort_values(rows, col) ==
    LET q == RankOrder(rows, col) IN [i \in DOMAIN rows |-> rows[q[i]]]

RLe(p, q) == ~RLess(q, p)

pct_bins_classifier_strict(pct, a_pct, b_pct) ==
    IF RLess(pct, <<a_pct, 1>>) THEN "A"
    ELSE IF RLess(pct, <<a_pct + b_pct, 1>>) THEN "B"
    ELSE "C"

pct_bins_classifier_b_alone(pct, a_pct, b_pct) ==
    IF RLe(pct, <<a_pct, 1>>) THEN "A"
    ELSE IF RLe(pct, <<b_pct, 1>>) THEN "B"
    ELSE "C"

pct_bins_classifier(pct, a_pct, b_pct) ==
    IF RLe(pct, <<a_pct, 1>>) THEN "A"
    ELSE IF RLe(pct, <<a_pct + b_pct, 1>>) THEN "B"
    ELSE "C"

ShareOfTotal(agg, total, i) ==
    IF total > 0 THEN Rat(100 * agg[i].Value, total) ELSE RZero

\* np.where(total > 0, 100.0 * agg["Value"].cumsum() / total, 0.0), entry i
CumulativePct(agg, total, i) ==
    IF total > 0 THEN Rat(100 * CumSum(agg, "Value", i), total) ELSE RZero

agg_of(df, key_col, value_col) ==
    [g \in DOMAIN GroupKeys(df, key_col) |->
        (key_col :> GroupKeys(df, key_col)[g]) @@
        [Value |-> GroupSum(df, key_col, value_col, GroupKeys(df, key_col)[g])]]

\* agg with the columns Cumulative% and ABC
WithABC(agg, a_pct, b_pct) ==
    [i \in DOMAIN agg |->
        agg[i] @@
        [CumulativePct |-> CumulativePct(agg, ColumnSum(agg, "Value"), i),
         ABC |-> pct_bins_classifier(CumulativePct(agg, ColumnSum(agg, "Value"), i),
                                     a_pct, b_pct)]]

abc_on_column(df, key_col, value_col, a_pct, b_pct) ==
    WithABC(sort_values(agg_of(df, key_col, value_col), "Value"), a_pct, b_pct)

(* Product segmentation, lines 186-220. *)

\* dfp: the three mapped columns, renamed and made numeric
dfp_of(df, item_col, sales_col, revenue_col) ==
    [i \in DOMAIN df |->
        [Item |-> df[i][item_col],
         SalesQty |-> fillna(to_numeric(df[i][sales_col]), 0).v,
         Revenue |-> fillna(to_numeric(df[i][revenue_col]), 0).v]]

\* items = dfp.groupby("Item", as_index=False).agg({"SalesQty":"sum","Revenue":"sum"})
items_of(dfp) ==
    [g \in DOMAIN GroupKeys(dfp, "Item") |->
        [Item |-> GroupKeys(dfp, "Item")[g],
         SalesQty |-> GroupSum(dfp, "Item", "SalesQty", GroupKeys(dfp, "Item")[g]),
         Revenue |-> GroupSum(dfp, "Item", "Revenue", GroupKeys(dfp, "Item")[g])]]

CumulPct_Sales(items, total_sales, i) ==
    IF total_sales > 0 THEN Rat(100 * CumSum(items, "SalesQty", i), total_sales) ELSE RZero

\* items with the columns CumulPct_Sales and ABC_Sales
WithSalesABC(items, a_pct, b_pct) ==
    [i \in DOMAIN items |->
        items[i] @@
        [CumulPct_Sales |-> CumulPct_Sales(items, ColumnSum(items, "SalesQty"), i),
         ABC_Sales |-> pct_bins_classifier(
                           CumulPct_Sales(items, ColumnSum(items, "SalesQty"), i),
                           a_pct, b_pct)]]

tot_rev_all_classes(items, i) == ColumnSum(items, "Revenue")

\* sub["Revenue"].sum() for the group of row i
tot_rev(items, i) ==
    SumTo([j \in DOMAIN items |->
              IF items[j].ABC_Sales = items[i].ABC_Sales THEN items[j].Revenue ELSE 0],
          Len(items))

Position(rk, i) == CHOOSE p \in DOMAIN rk : rk[p] = i

\* sub["Revenue"].cumsum() at row i, sub being the rows of i's group in the
\* order rk, an order of all rows by Revenue descending
SubCumSum(items, rk, i) ==
    SumTo([p \in DOMAIN rk |->
              IF items[rk[p]].ABC_Sales = items[i].ABC_Sales
              THEN items[rk[p]].Revenue ELSE 0],
          Position(rk, i))

CumulPct_Revenue_withinSales(items, rk, i) ==
    IF tot_rev(items, i) > 0
    THEN Rat(100 * SubCumSum(items, rk, i), tot_rev(items, i))
    ELSE RZero

ABC_Revenue_unguarded(items, rk, i, a_pct, b_pct) ==
    pct_bins_classifier(CumulPct_Revenue_withinSales(items, rk, i), a_pct, b_pct)

ABC_Revenue_withinSales(items, rk, i, a_pct, b_pct) ==
    IF tot_rev(items, i) > 0
    THEN pct_bins_classifier(CumulPct_Revenue_withinSales(items, rk, i), a_pct, b_pct)
    ELSE "C"

Final_Class_secondary_first(ABC_Sales, ABC_Revenue) == ABC_Revenue \o "-" \o ABC_Sales

\* items["ABC_Sales"] + "-" + items["ABC_Revenue_withinSales"], one row
Final_Class(ABC_Sales, ABC_Revenue) == ABC_Sales \o "-" \o ABC_Revenue

\* items with the within-class columns and Final_Class
WithRevenueABC(items, rk, a_pct, b_pct) ==
    [i \in DOMAIN items |->
        items[i] @@
        [CumulPct_Revenue_withinSales |-> CumulPct_Revenue_withinSales(items, rk, i),
         ABC_Revenue_withinSales |-> ABC_Revenue_withinSales(items, rk, i, a_pct, b_pct),
         Final_Class |-> Final_Class(items[i].ABC_Sales,
                                     ABC_Revenue_withinSales(items, rk, i, a_pct, b_pct))]]

\* lines 203-220: the Revenue ABC within each Sales class
NestedABC(primary, a_pct, b_pct) ==
    WithRevenueABC(primary, RankOrder(primary, "Revenue"), a_pct, b_pct)

(* Customer segmentation, lines 268-284. *)

dfc_of(df, customer_col, cust_rev_col) ==
    [i \in DOMAIN df |->
        [Customer |-> df[i][customer_col],
         Revenue |-> fillna(to_numeric(df[i][cust_rev_col]), 0).v]]

\* cust_agg.rename(columns={"Value": "TotalRevenue", "ABC": "ABC_Revenue",
\*                          "Cumulative%": "CumulPct_Revenue"})
RenameCustomer(cust_agg) ==
    [i \in DOMAIN cust_agg |->
        [Customer |-> cust_agg[i].Customer,
         TotalRevenue |-> cust_agg[i].Value,
         CumulPct_Revenue |-> cust_agg[i].CumulativePct,
         ABC_Revenue |-> cust_agg[i].ABC]]

\* lines 278-280: dfc2, the Customer, Revenue and Cost columns
dfc2_of(df, customer_col, cust_rev_col, cost_col) ==
    [i \in DOMAIN df |->
        [Customer |-> df[i][customer_col],
         Revenue |-> fillna(to_numeric(df[i][cust_rev_col]), 0).v,
         Cost |-> fillna(to_numeric(df[i][cost_col]), 0).v]]

\* line 282: agg["Profit"] = agg["Revenue"] - agg["Cost"], for one customer
Profit(dfc2, k) ==
    GroupSum(dfc2, "Customer", "Revenue", k) - GroupSum(dfc2, "Customer", "Cost", k)

\* line 283: np.where(agg["Revenue"]>0, agg["Profit"]/agg["Revenue"], 0.0)
ProfitMargin(dfc2, k) ==
    IF GroupSum(dfc2, "Customer", "Revenue", k) > 0
    THEN Rat(Profit(dfc2, k), GroupSum(dfc2, "Customer", "Revenue", k))
    ELSE RZero

\* line 284: pd.merge(cust_agg, agg[["Customer","Profit","ProfitMargin"]],
\*                    on="Customer", how="left").fillna(0)
MergeProfit(cust_agg, dfc2) ==
    [i \in DOMAIN cust_agg |->
        cust_agg[i] @@ [Profit |-> Profit(dfc2, cust_agg[i].Customer),
                        ProfitMargin |-> ProfitMargin(dfc2, cust_agg[i].Customer)]]

(* Supplier segmentation, lines 322-338. *)

dfs_of(df, supplier_col, profitimpact_col, supplyrisk_col) ==
    [i \in DOMAIN df |->
        [Supplier |-> df[i][supplier_col],
         ProfitImpact |-> fillna(to_numeric(df[i][profitimpact_col]), 0).v,
         SupplyRisk |-> fillna(to_numeric(df[i][supplyrisk_col]), 0).v]]

\* The number of rows of one group.
GroupCount(rows, key_col, k) ==
    SumTo([i \in DOMAIN rows |-> IF rows[i][key_col] = k THEN 1 ELSE 0], Len(rows))

\* The mean of col over the rows of one group.
GroupMean(rows, key_col, col, k) ==
    Rat(GroupSum(rows, key_col, col, k), GroupCount(rows, key_col, k))

\* seg = dfs.groupby("Supplier", as_index=False).agg({"ProfitImpact":"mean","SupplyRisk":"mean"})
seg_of(dfs) ==
    [g \in DOMAIN GroupKeys(dfs, "Supplier") |->
        [Supplier |-> GroupKeys(dfs, "Supplier")[g],
         ProfitImpact |-> GroupMean(dfs, "Supplier", "ProfitImpact",
                                    GroupKeys(dfs, "Supplier")[g]),
         SupplyRisk |-> GroupMean(dfs, "Supplier", "SupplyRisk",
                                  GroupKeys(dfs, "Supplier")[g])]]

label_row_strict(r, thr) ==
    IF RLess(<<thr, 1>>, r.ProfitImpact) /\ RLess(<<thr, 1>>, r.SupplyRisk) THEN "Strategic"
    ELSE IF RLess(<<thr, 1>>, r.ProfitImpact) THEN "Leverage"
    ELSE IF RLess(<<thr, 1>>, r.SupplyRisk) THEN "Bottleneck"
    ELSE "Non-Critical"

label_row(r, thr) ==
    IF RLe(<<thr, 1>>, r.ProfitImpact) /\ RLe(<<thr, 1>>, r.SupplyRisk) THEN "Strategic"
    ELSE IF RLe(<<thr, 1>>, r.ProfitImpact) /\ ~RLe(<<thr, 1>>, r.SupplyRisk) THEN "Leverage"
    ELSE IF ~RLe(<<thr, 1>>, r.ProfitImpact) /\ RLe(<<thr, 1>>, r.SupplyRisk) THEN "Bottleneck"
    ELSE "Non-Critical"

\* seg with the column Segment
WithSegment(seg, thr) == [i \in DOMAIN seg |-> seg[i] @@ [Segment |-> label_row(seg[i], thr)]]


---------------------------------------------------------------------------
(* The rest of the state.  args holds the argument tuple of a compute_eoq  *)
(* call; each copy of the function is applied to it once and its outcome   *)
(* recorded.  df is the uploaded sheet, colmap the sidebar's column        *)
(* mapping, a_pct and b_pct the two sliders and seg_out what the last      *)
(* segmentation run showed.  page_again_out and app_again_out hold the    *)
(* outcome of a second Calculate with other discount inputs.               *)
(* page_inventory and app_inventory are the lists the "Inventory over      *)
(* Time" loops of the two Calculate handlers fill.  view_mode is the        *)
(* page's view radio, howto_step the step of its guide and howto_click     *)
(* the guide's button click that led to the current run of the script.     *)

VARIABLES args, page_out, app_out, df, colmap, a_pct, b_pct, seg_out,
          page_again_out, app_again_out, page_inventory, app_inventory,
          view_mode, howto_step, howto_click

again == <<page_again_out, app_again_out>>
plots == <<page_inventory, app_inventory>>
guide == <<view_mode, howto_step, howto_click>>

vars == <<args, page_out, app_out, df, colmap, a_pct, b_pct, seg_out, quicksort_ties,
          again, plots, guide>>

\* The slider's default position, line 320.
DefaultThr == 50

NotRun == [kind |-> "none", tile |-> "", msg |-> "", rows |-> <<>>, thr |-> DefaultThr]
Warned(tile, msg) ==
    [kind |-> "warning", tile |-> tile, msg |-> msg, rows |-> <<>>, thr |-> DefaultThr]
Ran(tile, rows) ==
    [kind |-> tile, tile |-> tile, msg |-> "", rows |-> rows, thr |-> DefaultThr]
RanSupplier(rows, thr) ==
    [kind |-> "Supplier", tile |-> "Supplier", msg |-> "", rows |-> rows, thr |-> thr]

\* No sheet column is mapped: the state of the sidebar of an EOQ session.
NoMapping ==
    [item_col |-> NoneSelected, sales_col |-> NoneSelected, revenue_col |-> NoneSelected,
     customer_col |-> NoneSelected, cust_rev_col |-> NoneSelected,
     cost_col |-> NoneSelected,
     supplier_col |-> NoneSelected, profitimpact_col |-> NoneSelected,
     supplyrisk_col |-> NoneSelected]

SegIdle ==
    /\ df = <<>>
    /\ colmap = NoMapping
    /\ a_pct = 70
    /\ b_pct = 20
    /\ seg_out = NotRun
    /\ quicksort_ties = "input order"

\* No button of the guide was clicked in this run of the script.
NoClick == [button |-> "none", step_idx |-> 0]

\* A session starts in the Calculator view (line 101, index=0), the guide
\* at its first step (line 172), nothing calculated and nothing plotted.
SessionStart ==
    /\ page_again_out = NotCalled
    /\ app_again_out = NotCalled
    /\ page_inventory = <<>>
    /\ app_inventory = <<>>
    /\ view_mode = "Calculator"
    /\ howto_step = 0
    /\ howto_click = NoClick

MaxD == 2
MaxC == 1
MaxS == 1
MaxH == 2
MaxL == 1
MaxQ == 2
MaxRate == 2

DemandSet == {Fin(k) : k \in -1..MaxD} \cup {PInf, NaN}
UnitCostSet == {Fin(k) : k \in 0..MaxC}
OrderingCostSet == {Fin(8 * k) : k \in -1..MaxS}
HoldingRateSet == {Frac(k, 2) : k \in 0..MaxH}
LeadTimeSet == {Fin(2 * k) : k \in 0..MaxL}
DiscountQSet == {None, NaN} \cup {Fin(2 * k) : k \in 0..MaxQ}
DiscountRateSet == {Frac(k, 2) : k \in 0..MaxRate}

EoqArgs ==
    [D : DemandSet, C : UnitCostSet, S : OrderingCostSet, h_rate : HoldingRateSet,
     lead_time_months : LeadTimeSet, discount_enabled : BOOLEAN,
     discount_Q : DiscountQSet, discount_rate : DiscountRateSet]

InitEOQ ==
    /\ args \in EoqArgs
    /\ page_out = NotCalled
    /\ app_out = NotCalled
    /\ SessionStart
    /\ SegIdle

\* src/pages/1_Inventory_Toolkit_EOQ.py, lines 224-230: res = compute_eoq(...)
CallPage ==
    /\ page_out = NotCalled
    /\ compute_eoq(page_out', args.D, args.C, args.S, args.h_rate,
                               args.lead_time_months, args.discount_enabled,
                               args.discount_Q, args.discount_rate)
    /\ UNCHANGED <<args, app_out, df, colmap, a_pct, b_pct, seg_out, quicksort_ties,
                 again, plots, guide>>

\* src/app.py, lines 112-118: res = compute_eoq(...)
CallApp ==
    /\ app_out = NotCalled
    /\ app_compute_eoq(app_out', args.D, args.C, args.S, args.h_rate,
                                  args.lead_time_months, args.discount_enabled,
                                  args.discount_Q, args.discount_rate)
    /\ UNCHANGED <<args, page_out, df, colmap, a_pct, b_pct, seg_out, quicksort_ties,
                 again, plots, guide>>

NextEOQ == CallPage \/ CallApp

SpecEOQ == InitEOQ /\ [][NextEOQ]_vars

\* A session whose first Calculate has the discount box unchecked (line
\* 215: discount_Q, discount_rate = None, 0.0) and whose second Calculate
\* has the same D, C, S, h_rate and lead_time_months and any discount
\* inputs.
InitEOQDiscount ==
    /\ args \in {a \in EoqArgs : /\ ~a.discount_enabled
                                 /\ a.discount_Q = None
                                 /\ a.discount_rate = Fin(0)}
    /\ page_out = NotCalled
    /\ app_out = NotCalled
    /\ SessionStart
    /\ SegIdle

\* src/pages/1_Inventory_Toolkit_EOQ.py, lines 209-230: the discount inputs
\* are changed and Calculate is clicked again
RecalculatePage ==
    /\ page_out # NotCalled
    /\ page_again_out = NotCalled
    /\ \E discount_enabled \in BOOLEAN, discount_Q \in DiscountQSet,
          discount_rate \in DiscountRateSet :
           compute_eoq(page_again_out', args.D, args.C, args.S, args.h_rate,
                       args.lead_time_months, discount_enabled, discount_Q, discount_rate)
    /\ UNCHANGED <<args, page_out, app_out, df, colmap, a_pct, b_pct, seg_out,
                   quicksort_ties, app_again_out, plots, guide>>

\* src/app.py, lines 100-118: the same in the single-file app
RecalculateApp ==
    /\ app_out # NotCalled
    /\ app_again_out = NotCalled
    /\ \E discount_enabled \in BOOLEAN, discount_Q \in DiscountQSet,
          discount_rate \in DiscountRateSet :
           app_compute_eoq(app_again_out', args.D, args.C, args.S, args.h_rate,
                           args.lead_time_months, discount_enabled, discount_Q,
                           discount_rate)
    /\ UNCHANGED <<args, page_out, app_out, df, colmap, a_pct, b_pct, seg_out,
                   quicksort_ties, page_again_out, plots, guide>>

NextEOQDiscount == CallPage \/ CallApp \/ RecalculatePage \/ RecalculateApp

SpecEOQDiscount == InitEOQDiscount /\ [][NextEOQDiscount]_vars

---------------------------------------------------------------------------
(* The Calculate handler with its "Inventory over Time" plot.              *)

\* The values the sidebar widgets can hold: D >= 0, C >= 0.01, S >= 0,
\* 0.0001 <= h_rate <= 1, lead_time_months >= 0, and either the discount
\* box unchecked (discount_Q, discount_rate = None, 0.0) or checked with
\* discount_Q >= 1 and a rate of 1 .. 50 percent.
WidgetArgs ==
    {a \in [D : {Fin(12 * k) : k \in 0..MaxD},
            C : {Fin(k) : k \in 1..(MaxC + 1)},
            S : {Fin(6 * k) : k \in 0..MaxS},
            h_rate : {Frac(1, k) : k \in 1..MaxH},
            lead_time_months : {Fin(6 * k) : k \in 0..(MaxL + 1)},
            discount_enabled : BOOLEAN,
            discount_Q : {None} \cup {Fin(2 * k) : k \in 1..MaxQ},
            discount_rate : {Fin(0)} \cup {Frac(1, 2 * k) : k \in 1..MaxRate}] :
        IF a.discount_enabled
        THEN a.discount_Q # None /\ a.discount_rate # Fin(0)
        ELSE a.discount_Q = None /\ a.discount_rate = Fin(0)}

\* months = list(range(13))
months == [m \in 1..13 |-> m - 1]

\* if level <= ROP: level = Q
ReplenishedBelow(level, Q, ROP) == IF Lt(level, ROP) THEN Q ELSE level

Replenished(level, Q, ROP) == IF Le(level, ROP) THEN Q ELSE level

\* for m in months: replenish, inventory.append(level), level -= D / 12
RECURSIVE InventoryLoop(_, _, _, _, _, _)
InventoryLoop(ms, inventory, level0, Q, ROP, D) ==
    IF ms = <<>>
    THEN inventory
    ELSE CHOOSE out \in
             {InventoryLoop(Tail(ms), Append(inventory, level),
                            Sub(level, Div(D, Fin(12))), Q, ROP, D) :
                  level \in {Replenished(level0, Q, ROP)}} : TRUE

\* Q = res["EOQ"]; ROP = res["ROP"]; level = Q; the loop.  Nothing is
\* plotted when compute_eoq raised.
InventoryOverTime(out, D) ==
    IF out.kind = "return"
    THEN InventoryLoop(months, <<>>, out.res.EOQ, out.res.EOQ, out.res.ROP, D)
    ELSE <<>>

InitEOQPlot ==
    /\ args \in WidgetArgs
    /\ page_out = NotCalled
    /\ app_out = NotCalled
    /\ SessionStart
    /\ SegIdle

\* src/pages/1_Inventory_Toolkit_EOQ.py, lines 222-283
CalculatePage ==
    /\ view_mode = "Calculator"
    /\ page_out = NotCalled
    /\ compute_eoq(page_out', args.D, args.C, args.S, args.h_rate,
                   args.lead_time_months, args.discount_enabled,
                   args.discount_Q, args.discount_rate)
    /\ page_inventory' = InventoryOverTime(page_out', args.D)
    /\ UNCHANGED <<args, app_out, df, colmap, a_pct, b_pct, seg_out, quicksort_ties,
                   again, app_inventory, guide>>

\* src/app.py, lines 110-175
CalculateApp ==
    /\ app_out = NotCalled
    /\ app_compute_eoq(app_out', args.D, args.C, args.S, args.h_rate,
                       args.lead_time_months, args.discount_enabled,
                       args.discount_Q, args.discount_rate)
    /\ app_inventory' = InventoryOverTime(app_out', args.D)
    /\ UNCHANGED <<args, page_out, df, colmap, a_pct, b_pct, seg_out, quicksort_ties,
                   again, page_inventory, guide>>

NextEOQPlot == CalculatePage \/ CalculateApp

SpecEOQPlot == InitEOQPlot /\ [][NextEOQPlot]_vars

---------------------------------------------------------------------------
(* The How-to guide of the EOQ page.                                       *)

\* The titles of steps = [...]
steps ==
    <<"Overview", "Enter inputs", "Run calculation", "Interpret the outputs",
      "Discount analysis", "Export the report", "Examples & quick tips">>

\* total = len(steps)
total == Len(steps)

max(a, b) == IF a >= b THEN a ELSE b
min(a, b) == IF a <= b THEN a ELSE b

\* c1.button("<- Previous", disabled=(step_idx == 0))
PreviousDisabled(step_idx) == step_idx = 0

\* c3.button("Next ->", disabled=(step_idx == total - 1))
NextDisabledPastEnd(step_idx) == step_idx = total

NextDisabled(step_idx) == step_idx = total - 1

\* st.session_state['howto_step'] = max(0, step_idx - 1)
PreviousStep(step_idx) == max(0, step_idx - 1)

\* st.session_state['howto_step'] = min(total - 1, step_idx + 1)
NextStep(step_idx) == min(total - 1, step_idx + 1)

\* view_mode = st.radio("Select view", ["Calculator", "How to use"], index=0)
SelectView ==
    /\ \E v \in {"Calculator", "How to use"} :
           /\ v # view_mode
           /\ view_mode' = v
    /\ UNCHANGED <<args, page_out, app_out, df, colmap, a_pct, b_pct, seg_out,
                   quicksort_ties, again, plots, howto_step, howto_click>>

\* A click on "<- Previous" in the guide; howto_click keeps the button and
\* the step_idx the page was rendered with.
ClickPrevious ==
    /\ view_mode = "How to use"
    /\ ~PreviousDisabled(howto_step)
    /\ howto_step' = PreviousStep(howto_step)
    /\ howto_click' = [button |-> "Previous", step_idx |-> howto_step]
    /\ UNCHANGED <<args, page_out, app_out, df, colmap, a_pct, b_pct, seg_out,
                   quicksort_ties, again, plots, view_mode>>

\* A click on "Next ->" in the guide
ClickNext ==
    /\ view_mode = "How to use"
    /\ ~NextDisabled(howto_step)
    /\ howto_step' = NextStep(howto_step)
    /\ howto_click' = [button |-> "Next", step_idx |-> howto_step]
    /\ UNCHANGED <<args, page_out, app_out, df, colmap, a_pct, b_pct, seg_out,
                   quicksort_ties, again, plots, view_mode>>

\* The preset "Coffee Co (your case)" of SAMPLES, lines 18-21 of the page:
\* D, C, S, h_rate and lead_time_months as preset; the discount inputs as
\* preset (500 at 10 %) or changed by the user.
ExampleArgs ==
    [D : {Fin(6000)}, C : {Fin(1500)}, S : {Fin(4000)}, h_rate : {Frac(1, 10)},
     lead_time_months : {Fin(2)}, discount_enabled : BOOLEAN,
     discount_Q : DiscountQSet \cup {Fin(500)},
     discount_rate : DiscountRateSet \cup {Frac(1, 10)}]

InitEOQExample ==
    /\ args \in ExampleArgs
    /\ page_out = NotCalled
    /\ app_out = NotCalled
    /\ SessionStart
    /\ SegIdle

SpecEOQExample == InitEOQExample /\ [][NextEOQ]_vars

\* A session of the EOQ page: the two views, the guide's buttons and
\* Calculate on the preset.
NextHowTo == SelectView \/ ClickPrevious \/ ClickNext \/ CalculatePage

SpecHowTo == InitEOQExample /\ [][NextHowTo]_vars

---------------------------------------------------------------------------
(* The segmentation runs.  The sheet has the columns Key, SalesQty and     *)
(* Revenue and is not empty (an empty sheet stops the page, lines 99-101); *)
(* its two numeric columns are mapped to every role that needs a number.   *)
(* The optional cost column stays at "(none)".  A session is followed up   *)
(* to its first segmentation run.                                          *)

MaxRows == 3

KeySet == {1, 2, 3}

\* The SalesQty and Revenue cells of a row.
RowCells ==
    {<<NumCell(1), NumCell(1)>>, <<NumCell(2), NaNCell>>, <<TextCell, NumCell(1)>>,
     <<NumCell(-1), NumCell(-1)>>}

RowSet == {[Key |-> k, SalesQty |-> c[1], Revenue |-> c[2]] : k \in KeySet, c \in RowCells}

Tables == UNION {[1..n -> RowSet] : n \in 1..MaxRows}

\* A row whose key cell is empty, and the shorter sheets with such a row.
BlankKeyRow == [Key |-> MissingKey, SalesQty |-> NumCell(1), Revenue |-> NumCell(1)]

BlankKeySheets ==
    {t \in UNION {[1..n -> RowSet \cup {BlankKeyRow}] : n \in 1..(MaxRows - 1)} :
        \E i \in DOMAIN t : t[i] = BlankKeyRow}

FullMapping ==
    [item_col |-> "Key", sales_col |-> "SalesQty", revenue_col |-> "Revenue",
     customer_col |-> "Key", cust_rev_col |-> "Revenue", cost_col |-> NoneSelected,
     supplier_col |-> "Key", profitimpact_col |-> "SalesQty", supplyrisk_col |-> "Revenue"]

\* The optional Cost column is mapped too, line 119.
CostMapping == [FullMapping EXCEPT !.cost_col = "SalesQty"]

ColumnMappings ==
    {FullMapping, CostMapping}
        \cup {[FullMapping EXCEPT ![f] = NoneSelected] : f \in DOMAIN FullMapping}

\* Slider positions <<a_pct, b_pct>>, lines 128-129.
CutoffSet == {<<50, 25>>, <<70, 40>>}

\* The compute_eoq arguments of a session that only segments.
IdleArgs ==
    [D |-> Fin(1), C |-> Fin(1), S |-> Fin(8), h_rate |-> Fin(1),
     lead_time_months |-> Fin(0), discount_enabled |-> FALSE,
     discount_Q |-> None, discount_rate |-> Fin(0)]

InitABC ==
    /\ args = IdleArgs
    /\ page_out = NotCalled
    /\ app_out = NotCalled
    /\ SessionStart
    /\ colmap \in ColumnMappings
    /\ df \in IF colmap = FullMapping THEN Tables \cup BlankKeySheets
              ELSE IF colmap = CostMapping THEN {t \in Tables : Len(t) < MaxRows}
              ELSE {t \in Tables : Len(t) = 1}
    /\ \E c \in CutoffSet : a_pct = c[1] /\ b_pct = c[2]
    /\ seg_out = NotRun
    /\ quicksort_ties \in TieOrders

ProductWarning ==
    "Please map Item, Sales quantity and Revenue columns in the sidebar to run Product segmentation."
CustomerWarning ==
    "Please map a Customer column in the sidebar to run Customer segmentation."
CustomerRevenueWarning ==
    "Please map a Revenue column for Customer segmentation (customer revenue)."
SupplierWarning ==
    "Please map a Supplier column in the sidebar to run Supplier segmentation."
KraljicWarning ==
    "For Kraljic-style segmentation map ProfitImpact and SupplyRisk columns in the sidebar (both required)."

\* lines 186-220: what "Run Product segmentation" computes
ProductItems(table, cols, a, b) ==
    NestedABC(WithSalesABC(sort_values(items_of(dfp_of(table, cols.item_col, cols.sales_col,
                                                       cols.revenue_col)),
                                       "SalesQty"), a, b), a, b)

\* lines 175-220: the Product tile and its "Run Product segmentation" button
ProductSegmentation(table, cols, a, b) ==
    IF ~(col_selected(cols.item_col) /\ col_selected(cols.sales_col)
         /\ col_selected(cols.revenue_col))
    THEN Warned("Product", ProductWarning)
    ELSE Ran("Product", ProductItems(table, cols, a, b))

\* lines 269-273: cust_agg before the optional Profit columns
CustomerABC(table, cols, a, b) ==
    RenameCustomer(abc_on_column(dfc_of(table, cols.customer_col, cols.cust_rev_col),
                                 "Customer", "Revenue", a, b))

CustomerSegmentation_revenue_defaults(table, cols, a, b) ==
    IF ~col_selected(cols.customer_col)
    THEN Warned("Customer", CustomerWarning)
    ELSE LET c == [cols EXCEPT !.cust_rev_col = IF col_selected(@) THEN @ ELSE "Revenue"]
         IN  IF col_selected(c.cost_col)
             THEN Ran("Customer",
                      MergeProfit(CustomerABC(table, c, a, b),
                                  dfc2_of(table, c.customer_col, c.cust_rev_col, c.cost_col)))
             ELSE Ran("Customer", CustomerABC(table, c, a, b))

\* lines 258-284: the Customer tile and its "Run Customer segmentation" button
CustomerSegmentation(table, cols, a, b) ==
    IF ~col_selected(cols.customer_col)
    THEN Warned("Customer", CustomerWarning)
    ELSE IF ~col_selected(cols.cust_rev_col)
    THEN Warned("Customer", CustomerRevenueWarning)
    ELSE IF col_selected(cols.cost_col)
    THEN Ran("Customer",
             MergeProfit(CustomerABC(table, cols, a, b),
                         dfc2_of(table, cols.customer_col, cols.cust_rev_col, cols.cost_col)))
    ELSE Ran("Customer", CustomerABC(table, cols, a, b))

\* Positions of the threshold slider, line 320.
ThrSet == {0, 1}

\* lines 311-338: the Supplier tile, its slider at thr and its "Run Supplier
\* segmentation" button
SupplierSegmentation(table, cols, thr) ==
    IF ~col_selected(cols.supplier_col)
    THEN Warned("Supplier", SupplierWarning)
    ELSE IF ~(col_selected(cols.profitimpact_col) /\ col_selected(cols.supplyrisk_col))
    THEN Warned("Supplier", KraljicWarning)
    ELSE RanSupplier(WithSegment(seg_of(dfs_of(table, cols.supplier_col,
                                               cols.profitimpact_col, cols.supplyrisk_col)),
                                 thr), thr)

\* The sheet columns whose cells a run of the tile coerces: lines 190-191,
\* 270 and 279-280, 324-325.  A tile that only warns coerces nothing.
CoercedColumns(tile, cols) ==
    IF tile = "Product"
    THEN IF col_selected(cols.item_col) /\ col_selected(cols.sales_col)
            /\ col_selected(cols.revenue_col)
         THEN {cols.sales_col, cols.revenue_col} ELSE {}
    ELSE IF tile = "Customer"
    THEN IF col_selected(cols.customer_col) /\ col_selected(cols.cust_rev_col)
         THEN {cols.cust_rev_col} \cup (IF col_selected(cols.cost_col) THEN {cols.cost_col} ELSE {})
         ELSE {}
    ELSE IF col_selected(cols.supplier_col) /\ col_selected(cols.profitimpact_col)
            /\ col_selected(cols.supplyrisk_col)
         THEN {cols.profitimpact_col, cols.supplyrisk_col} ELSE {}

SheetCoercedInPlace(table, written) ==
    [i \in DOMAIN table |->
        [f \in DOMAIN table[i] |->
            IF f \in written THEN fillna(to_numeric(table[i][f]), 0) ELSE table[i][f]]]

\* The sheet after a run.  The run selects its columns with
\* df[[...]].copy() (lines 186, 269, 278, 322) and assigns the coerced
\* columns to that copy; groupby and sort_values return new frames.  The
\* sheet keeps its cells.
SheetAfterRun(table, written) == table

RunProduct ==
    /\ seg_out = NotRun
    /\ seg_out' = ProductSegmentation(df, colmap, a_pct, b_pct)
    /\ df' = SheetAfterRun(df, CoercedColumns("Product", colmap))
    /\ UNCHANGED <<args, page_out, app_out, colmap, a_pct, b_pct, quicksort_ties,
                 again, plots, guide>>

RunCustomer ==
    /\ seg_out = NotRun
    /\ seg_out' = CustomerSegmentation(df, colmap, a_pct, b_pct)
    /\ df' = SheetAfterRun(df, CoercedColumns("Customer", colmap))
    /\ UNCHANGED <<args, page_out, app_out, colmap, a_pct, b_pct, quicksort_ties,
                 again, plots, guide>>

RunSupplier ==
    /\ seg_out = NotRun
    /\ \E thr \in ThrSet : seg_out' = SupplierSegmentation(df, colmap, thr)
    /\ df' = SheetAfterRun(df, CoercedColumns("Supplier", colmap))
    /\ UNCHANGED <<args, page_out, app_out, colmap, a_pct, b_pct, quicksort_ties,
                 again, plots, guide>>

NextABC == RunProduct \/ RunCustomer \/ RunSupplier

SpecABC == InitABC /\ [][NextABC]_vars

\* A sheet of five keys with the values 100, 80, 60, 40, 20 in both value
\* columns, its rows in any order, segmented at the sliders' default
\* positions 70 and 20 (lines 128-129).  ExampleValues[k] is the value of
\* key k: the order of the keys is not the order of the values.
ExampleValues == <<60, 100, 20, 80, 40>>

ExampleRow(k) ==
    [Key |-> k, SalesQty |-> NumCell(ExampleValues[k]), Revenue |-> NumCell(ExampleValues[k])]

ExampleSheets ==
    {[i \in DOMAIN ExampleValues |-> ExampleRow(p[i])] :
        p \in Permutations(DOMAIN ExampleValues)}

InitABCExample ==
    /\ args = IdleArgs
    /\ page_out = NotCalled
    /\ app_out = NotCalled
    /\ SessionStart
    /\ colmap = FullMapping
    /\ df \in ExampleSheets
    /\ a_pct = 70
    /\ b_pct = 20
    /\ seg_out = NotRun
    /\ quicksort_ties \in TieOrders

SpecABCExample == InitABCExample /\ [][NextABC]_vars

---------------------------------------------------------------------------
(* Properties of compute_eoq, stated of both copies: Outcomes is the set   *)
(* of the outcomes of the calls made so far.                               *)

Outcomes == {o \in {page_out, app_out} : o # NotCalled}

\* The parameters a message names.
NamedIn(msg) == IF msg = PositiveMessage THEN {"D", "C", "h_rate"} ELSE {}

\* C1: a call with D <= 0, C <= 0 or h_rate <= 0 raises the invalid-parameter
\* error, whose message names every offending parameter, and returns no
\* result; a call with D > 0, C > 0 and h_rate > 0 never raises that error.
C1_InvalidParameterError ==
    \A o \in Outcomes :
        LET offending == {f \in {"D", "C", "h_rate"} : Le(args[f], Fin(0))}
        IN  /\ offending # {} =>
                /\ o.kind = "raise"
                /\ o.exc = "ValueError"
                /\ o.msg = PositiveMessage
                /\ offending \subseteq NamedIn(o.msg)
                /\ o.res = NoResult
            /\ (Gt(args.D, Fin(0)) /\ Gt(args.C, Fin(0)) /\ Gt(args.h_rate, Fin(0))) =>
                ~(o.kind = "raise" /\ o.msg = PositiveMessage)

\* A rejected call whose only offending parameter is h_rate, made by both copies.
C1_Witness ==
    /\ Outcomes = {page_out, app_out}
    /\ args.D = Fin(1) /\ args.C = Fin(1) /\ args.h_rate = Fin(0) /\ args.S = Fin(8)
    /\ page_out.msg = PositiveMessage
    /\ app_out.msg = PositiveMessage

\* C2 (as claimed): with D, C, h_rate positive and finite and S = 0 the call
\* returns a result with EOQ = 0 and OrderingCost = 0.
C2_ZeroOrderingCostReturnsZero ==
    \A o \in Outcomes :
        (/\ IsFinite(args.D) /\ Gt(args.D, Fin(0))
         /\ Gt(args.C, Fin(0)) /\ Gt(args.h_rate, Fin(0))
         /\ args.S = Fin(0)) =>
            /\ o.kind = "return"
            /\ o.res.EOQ = Fin(0)
            /\ o.res.OrderingCost = Fin(0)

\* C3: in every returned discount evaluation accept holds exactly when
\* total_disc < total_base, it is False at a tie, annual_savings is
\* total_base - total_disc, and the savings are negative when the
\* discounted total is the larger one.
C3_AcceptIffStrictlyCheaper ==
    \A o \in Outcomes :
        (o.kind = "return" /\ o.res.discount # None) =>
            LET d == o.res.discount
                total_base == o.res.total_base
            IN  /\ d.accept <=> Lt(d.total_disc, total_base)
                /\ Eq(d.total_disc, total_base) => ~d.accept
                /\ d.annual_savings = Sub(total_base, d.total_disc)
                /\ Gt(d.total_disc, total_base) => Lt(d.annual_savings, Fin(0))

\* An exact tie: D = 1, C = 1, S = 8, h_rate = 1, Q = 2 at 50 %: both totals are 5.
C3_Witness ==
    /\ page_out.kind = "return"
    /\ page_out.res.discount # None
    /\ page_out.res.discount.total_disc = page_out.res.total_base
    /\ page_out.res.total_base = Fin(5)
    /\ ~page_out.res.discount.accept

\* C7 (as claimed): for D, C, h_rate positive and finite and S >= 0 finite the
\* call returns OrderingCost = HoldingCost and EOQ * EOQ = 2*D*S / (h_rate*C).
C7_SquareRootIdentity ==
    \A o \in Outcomes :
        (/\ IsFinite(args.D) /\ Gt(args.D, Fin(0))
         /\ Gt(args.C, Fin(0)) /\ Gt(args.h_rate, Fin(0))
         /\ Le(Fin(0), args.S)) =>
            /\ o.kind = "return"
            /\ o.res.OrderingCost = o.res.HoldingCost
            /\ Mul(o.res.EOQ, o.res.EOQ)
                 = Div(Mul(Mul(Fin(2), args.D), args.S), Mul(args.h_rate, args.C))

\* C8: a returned result holds a discount evaluation exactly when the
\* discount is enabled, a threshold quantity is supplied and positive, and
\* 0 < discount_rate < 1; whatever the discount arguments are, a call with
\* positive finite D, C, S and h_rate returns its result.
C8_DiscountPresentIffOffered ==
    \A o \in Outcomes :
        /\ o.kind = "return" =>
            ((o.res.discount # None) <=>
                /\ args.discount_enabled
                /\ args.discount_Q # None
                /\ Gt(args.discount_Q, Fin(0))
                /\ Lt(Fin(0), args.discount_rate)
                /\ Lt(args.discount_rate, Fin(1)))
        /\ (/\ IsFinite(args.D) /\ Gt(args.D, Fin(0)) /\ Gt(args.C, Fin(0))
            /\ Gt(args.S, Fin(0)) /\ Gt(args.h_rate, Fin(0))) => o.kind = "return"

\* A call with the discount enabled and a valid rate but threshold 0: it
\* returns the base metrics and no discount evaluation.
C8_Witness ==
    /\ page_out.kind = "return"
    /\ args.discount_enabled
    /\ args.discount_Q = Fin(0)
    /\ args.discount_rate = Frac(1, 2)
    /\ page_out.res.discount = None
    /\ page_out.res.EOQ = Fin(4)

\* C9: in every returned discount evaluation the ordering cost is
\* (D / discount_Q) * S and the holding cost (discount_Q / 2) * h_rate * C *
\* (1 - discount_rate): the threshold quantity and the discounted price.
C9_DiscountCostsAtThreshold ==
    \A o \in Outcomes :
        (o.kind = "return" /\ o.res.discount # None) =>
            /\ o.res.discount.ordering_cost_disc
                 = Mul(Div(args.D, args.discount_Q), args.S)
            /\ o.res.discount.holding_cost_disc
                 = Mul(Mul(Mul(Div(args.discount_Q, Fin(2)), args.h_rate), args.C),
                       Sub(Fin(1), args.discount_rate))

\* A discount evaluation whose threshold (2) differs from the base EOQ (4) and
\* whose costs differ from the base ones.
C9_Witness ==
    /\ app_out.kind = "return"
    /\ app_out.res.discount # None
    /\ args.discount_Q = Fin(2)
    /\ app_out.res.EOQ = Fin(4)
    /\ app_out.res.discount.ordering_cost_disc = Fin(4)
    /\ app_out.res.OrderingCost = Fin(2)
    /\ app_out.res.discount.holding_cost_disc = Frac(1, 2)
    /\ app_out.res.HoldingCost = Fin(2)

\* C10 (as claimed): no returned result holds a non-finite field.
C10_NoNonFiniteResult ==
    \A o \in Outcomes :
        o.kind = "return" =>
            /\ \A f \in DOMAIN o.res \ {"discount"} : ~IsNonFinite(o.res[f])
            /\ o.res.discount # None =>
                 \A f \in DOMAIN o.res.discount \ {"accept"} :
                     ~IsNonFinite(o.res.discount[f])

---------------------------------------------------------------------------
(* Properties of the single-criterion ABC, stated of what the last run     *)
(* showed.  PrimaryRows is the ranked table of that run: the Sales ABC of  *)
(* a Product run, the result of abc_on_column of a Customer run.           *)

PrimaryRows ==
    IF seg_out.kind = "Product"
    THEN [i \in DOMAIN seg_out.rows |->
             [key |-> seg_out.rows[i].Item,
              value |-> seg_out.rows[i].SalesQty,
              pct |-> seg_out.rows[i].CumulPct_Sales,
              class |-> seg_out.rows[i].ABC_Sales]]
    ELSE IF seg_out.kind = "Customer"
    THEN [i \in DOMAIN seg_out.rows |->
             [key |-> seg_out.rows[i].Customer,
              value |-> seg_out.rows[i].TotalRevenue,
              pct |-> seg_out.rows[i].CumulPct_Revenue,
              class |-> seg_out.rows[i].ABC_Revenue]]
    ELSE <<>>

PrimaryTotal == ColumnSum(PrimaryRows, "value")

\* C4: when the sum of all values is 0, every row of the result has
\* cumulative percentage 0 and class "C".
C4_ZeroTotalAllC ==
    PrimaryTotal = 0 =>
        \A i \in DOMAIN PrimaryRows :
            PrimaryRows[i].pct = RZero /\ PrimaryRows[i].class = "C"

\* C5, as stated: for any input the cumulative percentage is non-decreasing
\* from row to row, and the last row's is 100 whenever the total is > 0.
C5_MonotonicCumulativePct ==
    /\ \A i \in 1..(Len(PrimaryRows) - 1) :
           RLe(PrimaryRows[i].pct, PrimaryRows[i + 1].pct)
    /\ PrimaryTotal > 0 => PrimaryRows[Len(PrimaryRows)].pct = <<100, 1>>

\* C5, amended: the cumulative percentage does not decrease from a row to
\* the next whenever the next row's value is not negative or the total is
\* not positive (so it is non-decreasing throughout when no aggregated
\* value is negative), and the last row's is 100 whenever the total is > 0.
C5_MonotonicForNonNegative ==
    /\ \A i \in 1..(Len(PrimaryRows) - 1) :
           (PrimaryRows[i + 1].value >= 0 \/ PrimaryTotal <= 0) =>
               RLe(PrimaryRows[i].pct, PrimaryRows[i + 1].pct)
    /\ PrimaryTotal > 0 => PrimaryRows[Len(PrimaryRows)].pct = <<100, 1>>

\* A Customer run over three keys of positive value: the percentage rises
\* at every row and ends at 100.
C5_Witness ==
    /\ seg_out.kind = "Customer"
    /\ Len(PrimaryRows) = 3
    /\ \A i \in 1..3 : PrimaryRows[i].value > 0
    /\ RLess(PrimaryRows[1].pct, PrimaryRows[2].pct)
    /\ RLess(PrimaryRows[2].pct, PrimaryRows[3].pct)
    /\ PrimaryRows[3].pct = <<100, 1>>

\* C6: the class of a row with cumulative percentage p is "A" if p <= a_pct,
\* "B" if a_pct < p <= a_pct + b_pct and "C" otherwise; p = a_pct gives "A"
\* and p = a_pct + b_pct gives "B".
C6_TierRule ==
    \A i \in DOMAIN PrimaryRows :
        /\ PrimaryRows[i].class = "A" <=> RLe(PrimaryRows[i].pct, <<a_pct, 1>>)
        /\ PrimaryRows[i].class = "B" <=>
               /\ RLess(<<a_pct, 1>>, PrimaryRows[i].pct)
               /\ RLe(PrimaryRows[i].pct, <<a_pct + b_pct, 1>>)
        /\ PrimaryRows[i].class = "C" <=> RLess(<<a_pct + b_pct, 1>>, PrimaryRows[i].pct)

\* A Product run with a row exactly on each boundary and a row beyond both.
C6_Witness ==
    /\ seg_out.kind = "Product"
    /\ \E i, j, k \in DOMAIN PrimaryRows :
           /\ PrimaryRows[i].pct = <<a_pct, 1>> /\ PrimaryRows[i].class = "A"
           /\ PrimaryRows[j].pct = <<a_pct + b_pct, 1>> /\ PrimaryRows[j].class = "B"
           /\ PrimaryRows[k].class = "C"

---------------------------------------------------------------------------
(* Properties of the nested ABC of a Product run.  ProductRows is the      *)
(* table the run showed, in the order of the Sales ABC.                    *)

ProductRows == IF seg_out.kind = "Product" THEN seg_out.rows ELSE <<>>

\* The rows of the primary tier of row i.
TierOf(i) == {j \in DOMAIN ProductRows : ProductRows[j].ABC_Sales = ProductRows[i].ABC_Sales}

RECURSIVE RevenueOf(_)
RevenueOf(S) ==
    IF S = {} THEN 0
    ELSE LET j == CHOOSE x \in S : TRUE
         IN ProductRows[j].Revenue + RevenueOf(S \ {j})

\* The rows of i's tier that rank at or above i by Revenue, rows of equal
\* Revenue ranking as the sort leaves them.
AtOrAbove(i) ==
    {j \in TierOf(i) :
        \/ ProductRows[j].Revenue > ProductRows[i].Revenue
        \/ /\ ProductRows[j].Revenue = ProductRows[i].Revenue
           /\ IF quicksort_ties = "input order" THEN j <= i ELSE j >= i}

\* The ABC tier rule at the sliders' cutoffs.
TierRule(p) ==
    IF RLe(p, <<a_pct, 1>>) THEN "A"
    ELSE IF RLe(p, <<a_pct + b_pct, 1>>) THEN "B"
    ELSE "C"

ScopedPct(i) == Rat(100 * RevenueOf(AtOrAbove(i)), RevenueOf(TierOf(i)))

\* C11, as stated: the secondary cumulative percentage of every row is
\* 100 * (Revenue of the rows of its primary tier ranking at or above it)
\* / (Revenue of all rows of its primary tier), and its secondary tier is
\* the tier rule applied to that percentage (a tier whose Revenue total is
\* 0 has no such quotient and is left out).
C11_ScopedCumulation ==
    \A i \in DOMAIN ProductRows :
        RevenueOf(TierOf(i)) # 0 =>
            /\ ProductRows[i].CumulPct_Revenue_withinSales = ScopedPct(i)
            /\ ProductRows[i].ABC_Revenue_withinSales = TierRule(ScopedPct(i))

\* C11, amended: in every primary tier whose Revenue total is > 0 the
\* secondary cumulative percentage of a row is 100 * (Revenue of the rows
\* of that tier ranking at or above it) / (Revenue of all rows of that
\* tier) and the secondary tier is the tier rule applied to it; in a tier
\* whose Revenue total is <= 0 every row gets 0 and "C".
C11_ScopedCumulationPositiveTotal ==
    \A i \in DOMAIN ProductRows :
        IF RevenueOf(TierOf(i)) > 0
        THEN /\ ProductRows[i].CumulPct_Revenue_withinSales = ScopedPct(i)
             /\ ProductRows[i].ABC_Revenue_withinSales = TierRule(ScopedPct(i))
        ELSE /\ ProductRows[i].CumulPct_Revenue_withinSales = RZero
             /\ ProductRows[i].ABC_Revenue_withinSales = "C"

\* A tier of two rows of positive Revenue beside another tier of positive
\* Revenue: the first row of the pair is at 50 within its tier.
C11_Witness ==
    \E i, j, k \in DOMAIN ProductRows :
        /\ i # j /\ TierOf(i) = {i, j} /\ k \notin TierOf(i)
        /\ ProductRows[i].Revenue > 0 /\ ProductRows[j].Revenue > 0
        /\ ProductRows[k].Revenue > 0
        /\ ProductRows[i].CumulPct_Revenue_withinSales = <<50, 1>>
        /\ ProductRows[j].CumulPct_Revenue_withinSales = <<100, 1>>

Tiers == {"A", "B", "C"}

\* C12: after a Product run every item named in the sheet has exactly one row,
\* the row's Final_Class is one of the 9 labels "{primary}-{secondary}"
\* over {A,B,C} x {A,B,C}, and the primary part is the row's Sales tier.
C12_PartitionCompleteness ==
    seg_out.kind = "Product" =>
        /\ {ProductRows[i].Item : i \in DOMAIN ProductRows}
               = {df[r].Key : r \in DOMAIN df} \ {MissingKey}
        /\ \A i, j \in DOMAIN ProductRows :
               ProductRows[i].Item = ProductRows[j].Item => i = j
        /\ \A i \in DOMAIN ProductRows :
               /\ ProductRows[i].Final_Class \in {x \o "-" \o y : x \in Tiers, y \in Tiers}
               /\ \E y \in Tiers :
                      ProductRows[i].Final_Class = ProductRows[i].ABC_Sales \o "-" \o y

\* A run over three items whose labels differ, one with a secondary tier
\* other than its primary tier.
C12_Witness ==
    /\ Len(ProductRows) = 3
    /\ Cardinality({ProductRows[i].Final_Class : i \in DOMAIN ProductRows}) = 3
    /\ \E i \in DOMAIN ProductRows :
           ProductRows[i].ABC_Sales # ProductRows[i].ABC_Revenue_withinSales

\* C13: in a primary tier whose Revenue total is zero, every row gets
\* secondary cumulative percentage 0 and secondary tier "C".
C13_ZeroPartitionAllC ==
    \A i \in DOMAIN ProductRows :
        RevenueOf(TierOf(i)) = 0 =>
            /\ ProductRows[i].CumulPct_Revenue_withinSales = RZero
            /\ ProductRows[i].ABC_Revenue_withinSales = "C"

\* A primary tier of two rows whose Revenue total is zero.
C13_Witness ==
    \E i, j \in DOMAIN ProductRows :
        /\ i # j /\ j \in TierOf(i)
        /\ RevenueOf(TierOf(i)) = 0
        /\ ProductRows[i].ABC_Revenue_withinSales = "C"
        /\ ProductRows[j].ABC_Revenue_withinSales = "C"

---------------------------------------------------------------------------
(* Properties of the quadrant classifier of a Supplier run.                *)

SupplierRows == IF seg_out.kind = "Supplier" THEN seg_out.rows ELSE <<>>

HighX(i) == RLe(<<seg_out.thr, 1>>, SupplierRows[i].ProfitImpact)
HighY(i) == RLe(<<seg_out.thr, 1>>, SupplierRows[i].SupplyRisk)

\* C14: after a Supplier run every supplier named in the sheet has one row with
\* exactly one of the four labels, fixed by highX = (ProfitImpact >= thr)
\* and highY = (SupplyRisk >= thr): (high, high) Strategic, (high, low)
\* Leverage, (low, high) Bottleneck, (low, low) Non-Critical.
C14_QuadrantLabels ==
    seg_out.kind = "Supplier" =>
        /\ {SupplierRows[i].Supplier : i \in DOMAIN SupplierRows}
               = {df[r].Key : r \in DOMAIN df} \ {MissingKey}
        /\ \A i \in DOMAIN SupplierRows :
               SupplierRows[i].Segment =
                   IF HighX(i) /\ HighY(i) THEN "Strategic"
                   ELSE IF HighX(i) THEN "Leverage"
                   ELSE IF HighY(i) THEN "Bottleneck"
                   ELSE "Non-Critical"

\* A run with a supplier exactly on both thresholds labelled Strategic
\* beside a Leverage and a Bottleneck supplier.
C14_Witness ==
    \E i, j, k \in DOMAIN SupplierRows :
        /\ SupplierRows[i].ProfitImpact = <<seg_out.thr, 1>>
        /\ SupplierRows[i].SupplyRisk = <<seg_out.thr, 1>>
        /\ SupplierRows[i].Segment = "Strategic"
        /\ SupplierRows[j].Segment = "Leverage"
        /\ SupplierRows[k].Segment = "Bottleneck"

---------------------------------------------------------------------------
(* Further properties of the single-criterion ABC.                         *)

\* The first row of the sheet with key k.
FirstRow(k) == CHOOSE r \in DOMAIN df : df[r].Key = k /\ \A q \in 1..(r - 1) : df[q].Key # k

\* C15: of any two rows of the result with equal value, the one whose key
\* comes first in the input comes first in the result.
C15_TiesInInputOrder ==
    \A i, j \in DOMAIN PrimaryRows :
        (i < j /\ PrimaryRows[i].value = PrimaryRows[j].value) =>
            FirstRow(PrimaryRows[i].key) < FirstRow(PrimaryRows[j].key)

\* C16, as stated: when a_pct + b_pct exceeds 100, no row of the result is
\* classified "C", whatever the input table.
C16_NoCWhenCutoffsExceed100 ==
    a_pct + b_pct > 100 =>
        \A i \in DOMAIN PrimaryRows : PrimaryRows[i].class # "C"

\* C16, amended: when a_pct + b_pct exceeds 100 and no aggregated value is
\* negative, no row of the result is classified "C".
C16_NoCWhenCutoffsExceed100NonNegative ==
    (a_pct + b_pct > 100 /\ \A i \in DOMAIN PrimaryRows : PrimaryRows[i].value >= 0) =>
        \A i \in DOMAIN PrimaryRows : PrimaryRows[i].class # "C"

\* A run with cutoffs above 100 over three keys of positive value: the
\* last row is at 100 and is classified "B".
C16_Witness ==
    /\ a_pct + b_pct > 100
    /\ Len(PrimaryRows) = 3
    /\ \A i \in DOMAIN PrimaryRows : PrimaryRows[i].value > 0
    /\ PrimaryRows[3].pct = <<100, 1>>
    /\ PrimaryRows[3].class = "B"

\* What a cell counts as once coerced: its number, or 0 for a text or a
\* missing value.
AsZero(c) == IF c.t = "num" THEN c ELSE NumCell(0)

\* The sheet with every text or missing value cell replaced by 0.
ZeroedSheet ==
    [i \in DOMAIN df |->
        [Key |-> df[i].Key, SalesQty |-> AsZero(df[i].SalesQty),
         Revenue |-> AsZero(df[i].Revenue)]]

\* The keys of the rows of the shown result.
ResultKeys ==
    {IF seg_out.kind = "Product" THEN seg_out.rows[r].Item
     ELSE IF seg_out.kind = "Customer" THEN seg_out.rows[r].Customer
     ELSE seg_out.rows[r].Supplier : r \in DOMAIN seg_out.rows}

\* C17: a text or missing cell of a value column is never an error; the
\* run shows a result, keeps the key of every row that has one and shows
\* exactly what it shows for the sheet with those cells replaced by 0.
C17_CoercedCellsCountAsZero ==
    seg_out.kind \in {"Product", "Customer", "Supplier"} =>
        /\ \A i \in DOMAIN df : df[i].Key # MissingKey => df[i].Key \in ResultKeys
        /\ seg_out.kind = "Product" =>
               seg_out = ProductSegmentation(ZeroedSheet, colmap, a_pct, b_pct)
        /\ seg_out.kind = "Customer" =>
               seg_out = CustomerSegmentation(ZeroedSheet, colmap, a_pct, b_pct)
        /\ seg_out.kind = "Supplier" =>
               seg_out = SupplierSegmentation(ZeroedSheet, colmap, seg_out.thr)

\* A Customer run with the Cost column mapped on a sheet with a text Cost
\* cell and a missing Revenue cell; both rows are in the result.
C17_Witness ==
    /\ seg_out.kind = "Customer"
    /\ colmap = CostMapping
    /\ Len(df) = 2
    /\ df[1].SalesQty.t = "text"
    /\ df[2].Revenue.t = "nan"
    /\ Len(seg_out.rows) = 2

\* The mappings a tile requires.
RequiredColumns(tile) ==
    IF tile = "Product" THEN {"item_col", "sales_col", "revenue_col"}
    ELSE IF tile = "Customer" THEN {"customer_col", "cust_rev_col"}
    ELSE {"supplier_col", "profitimpact_col", "supplyrisk_col"}

\* The warnings of a tile.
WarningsOf(tile) ==
    IF tile = "Product" THEN {ProductWarning}
    ELSE IF tile = "Customer" THEN {CustomerWarning, CustomerRevenueWarning}
    ELSE {SupplierWarning, KraljicWarning}

RepeatOfRun ==
    IF seg_out.tile = "Product" THEN ProductSegmentation(df, colmap, a_pct, b_pct)
    ELSE IF seg_out.tile = "Customer" THEN CustomerSegmentation(df, colmap, a_pct, b_pct)
    ELSE SupplierSegmentation(df, colmap, seg_out.thr)

---------------------------------------------------------------------------
(* The reorder point of compute_eoq.                                       *)

\* C20 (as claimed): for every valid input (D, C, h_rate positive and
\* finite, S >= 0, lead_time_months >= 0) the call returns
\* ROP = (D / 12) * lead_time_months, which is 0 when lead_time_months = 0.
C20_ReorderPoint ==
    \A o \in Outcomes :
        (/\ IsFinite(args.D) /\ Gt(args.D, Fin(0))
         /\ Gt(args.C, Fin(0)) /\ Gt(args.h_rate, Fin(0))
         /\ Le(Fin(0), args.S) /\ Le(Fin(0), args.lead_time_months)) =>
            /\ o.kind = "return"
            /\ o.res.ROP = Mul(Div(args.D, Fin(12)), args.lead_time_months)
            /\ args.lead_time_months = Fin(0) => o.res.ROP = Fin(0)

---------------------------------------------------------------------------
(* The worked example of the single-criterion ABC.                         *)

\* C21: for five distinct keys with the values 100, 80, 60, 40, 20 in any
\* row order and the cutoffs 70 and 20, the result lists the values in
\* descending order, the total is 300, the cumulative percentages are
\* 100/3, 60, 80, 280/3, 100 and the classes A, A, B, C, C.
C21_EndToEndABCExample ==
    (/\ df \in ExampleSheets /\ a_pct = 70 /\ b_pct = 20
     /\ seg_out.kind \in {"Product", "Customer"}) =>
        /\ [i \in DOMAIN PrimaryRows |-> PrimaryRows[i].value] = <<100, 80, 60, 40, 20>>
        /\ PrimaryTotal = 300
        /\ [i \in DOMAIN PrimaryRows |-> PrimaryRows[i].pct]
             = << <<100, 3>>, <<60, 1>>, <<80, 1>>, <<280, 3>>, <<100, 1>> >>
        /\ [i \in DOMAIN PrimaryRows |-> PrimaryRows[i].class] = <<"A", "A", "B", "C", "C">>

\* A Customer run of the example whose sheet lists the smallest value first.
C21_Witness ==
    /\ seg_out.kind = "Customer"
    /\ df \in ExampleSheets
    /\ df[1].Revenue = NumCell(20)
    /\ df[5].Revenue = NumCell(100)
    /\ Len(seg_out.rows) = 5
    /\ seg_out.rows[1].TotalRevenue = 100

---------------------------------------------------------------------------
(* The worked example of compute_eoq.                                      *)

\* x lies strictly between the integers lo and lo + 1.
Within(x, lo) == Lt(Fin(lo), x) /\ Lt(x, Fin(lo + 1))

\* C22: for D = 6000, C = 1500, S = 4000, h_rate = 0.10 and a lead time of
\* 2 months, whatever the discount inputs, the call returns h = 150, an EOQ
\* whose square is 320000 (between 565.68 and 565.7), OrderingCost equal to
\* HoldingCost (between 42426 and 42427), TLC their sum and ROP = 1000.
C22_EndToEndEOQExample ==
    \A o \in Outcomes :
        (/\ args.D = Fin(6000) /\ args.C = Fin(1500) /\ args.S = Fin(4000)
         /\ args.h_rate = Frac(1, 10) /\ args.lead_time_months = Fin(2)) =>
            /\ o.kind = "return"
            /\ o.res.h = Fin(150)
            /\ Mul(o.res.EOQ, o.res.EOQ) = Fin(320000)
            /\ Lt(Frac(56568, 100), o.res.EOQ) /\ Lt(o.res.EOQ, Frac(5657, 10))
            /\ o.res.OrderingCost = o.res.HoldingCost
            /\ Within(o.res.OrderingCost, 42426)
            /\ o.res.TLC = Add(o.res.OrderingCost, o.res.HoldingCost)
            /\ Within(Div(o.res.TLC, Fin(2)), 42426)
            /\ o.res.ROP = Fin(1000)

\* Both copies were called with the preset, its discount of 10 % at 500
\* units included, and returned.
C22_Witness ==
    /\ args.D = Fin(6000) /\ args.C = Fin(1500) /\ args.S = Fin(4000)
    /\ args.h_rate = Frac(1, 10) /\ args.lead_time_months = Fin(2)
    /\ args.discount_enabled /\ args.discount_Q = Fin(500)
    /\ args.discount_rate = Frac(1, 10)
    /\ page_out.kind = "return"
    /\ app_out.kind = "return"
    /\ page_out.res.discount # None

---------------------------------------------------------------------------
(* The multi-criteria weighted ABC, stated of the Product run: the only    *)
(* run with two criteria, SalesQty and Revenue, per item.                  *)

Criteria == <<"SalesQty", "Revenue">>

\* Weights of the two criteria.
WeightSet == {<<1, 1>>, <<2, 1>>, <<1, 0>>, <<0, 1>>}

\* The largest value of a criterion over the items.
MaxAttr(c) ==
    CHOOSE m \in {ProductRows[i][Criteria[c]] : i \in DOMAIN ProductRows} :
        \A i \in DOMAIN ProductRows : ProductRows[i][Criteria[c]] <= m

\* The criteria with a positive weight and a positive maximum.
Qualifying(w) == {c \in DOMAIN Criteria : w[c] > 0 /\ MaxAttr(c) > 0}

RECURSIVE WeightSum(_, _)
WeightSum(w, S) ==
    IF S = {} THEN 0
    ELSE LET c == CHOOSE x \in S : TRUE IN w[c] + WeightSum(w, S \ {c})

RECURSIVE Blend(_, _, _, _)
Blend(i, w, S, all) ==
    IF S = {} THEN RZero
    ELSE LET c == CHOOSE x \in S : TRUE
         IN  RAdd(RMul(Rat(w[c], WeightSum(w, all)),
                       Rat(ProductRows[i][Criteria[c]], MaxAttr(c))),
                  Blend(i, w, S \ {c}, all))

\* score = the sum over the qualifying criteria of
\* (weight / sum of weights) * (attribute / maximum); the raw value when no
\* criterion qualifies.
Score(i, w) ==
    IF Qualifying(w) = {} THEN <<ProductRows[i].SalesQty, 1>>
    ELSE Blend(i, w, Qualifying(w), Qualifying(w))

\* Item j ranks before item i on the score, equal scores as the sort
\* leaves them.
ScoreBefore(j, i, w) ==
    \/ RLess(Score(i, w), Score(j, w))
    \/ /\ Score(i, w) = Score(j, w)
       /\ IF quicksort_ties = "input order"
          THEN ProductRows[j].Item < ProductRows[i].Item
          ELSE ProductRows[j].Item > ProductRows[i].Item

RECURSIVE ScoreSum(_, _)
ScoreSum(S, w) ==
    IF S = {} THEN RZero
    ELSE LET j == CHOOSE x \in S : TRUE IN RAdd(Score(j, w), ScoreSum(S \ {j}, w))

\* The class of item i when the items are sorted, cumulated and tiered on
\* the score.
ScoreClass(i, w) ==
    LET score_total == ScoreSum(DOMAIN ProductRows, w)
        cum == ScoreSum({j \in DOMAIN ProductRows : j = i \/ ScoreBefore(j, i, w)}, w)
    IN  pct_bins_classifier(IF RLess(RZero, score_total)
                            THEN RDiv(RMul(<<100, 1>>, cum), score_total) ELSE RZero,
                            a_pct, b_pct)

\* C23 (as claimed): the Product run provides the multi-criteria weighted
\* ABC: for every weighting of SalesQty and Revenue one of its class
\* columns gives each item the class of its weighted, normalised score.
C23_MultiCriteriaWeightedABC ==
    seg_out.kind = "Product" =>
        \A w \in WeightSet :
            \E col \in {"ABC_Sales", "ABC_Revenue_withinSales", "Final_Class"} :
                \A i \in DOMAIN ProductRows : ProductRows[i][col] = ScoreClass(i, w)

---------------------------------------------------------------------------
(* Key aggregation of the single-criterion ABC.                            *)

\* The number the value cell of sheet row i counts as in the shown run.
InputValue(i) ==
    IF seg_out.kind = "Product" THEN AsZero(df[i].SalesQty).v ELSE AsZero(df[i].Revenue).v

RECURSIVE InputSum(_)
InputSum(S) ==
    IF S = {} THEN 0
    ELSE LET i == CHOOSE x \in S : TRUE IN InputValue(i) + InputSum(S \ {i})

\* C24, as stated: for any sheet the result has exactly one row per
\* distinct key of the sheet, the row's value is the sum of the value column
\* over the sheet rows of that key, and the values of the result add up to
\* the sum of the column over the sheet.
C24_KeyAggregation ==
    seg_out.kind \in {"Product", "Customer"} =>
        /\ \A i, j \in DOMAIN PrimaryRows :
               PrimaryRows[i].key = PrimaryRows[j].key => i = j
        /\ {PrimaryRows[i].key : i \in DOMAIN PrimaryRows} = {df[i].Key : i \in DOMAIN df}
        /\ \A r \in DOMAIN PrimaryRows :
               PrimaryRows[r].value
                   = InputSum({i \in DOMAIN df : df[i].Key = PrimaryRows[r].key})
        /\ PrimaryTotal = InputSum(DOMAIN df)

\* The sheet rows that have a key.
Keyed == {i \in DOMAIN df : df[i].Key # MissingKey}

\* C24, amended: the result has exactly one row per distinct key among the
\* sheet rows that have a key, the row's value is the sum of the value
\* column over the sheet rows of that key, and the values of the result add
\* up to the sum of the column over the rows that have a key.
C24_KeyAggregationOfKeyedRows ==
    seg_out.kind \in {"Product", "Customer"} =>
        /\ \A i, j \in DOMAIN PrimaryRows :
               PrimaryRows[i].key = PrimaryRows[j].key => i = j
        /\ {PrimaryRows[i].key : i \in DOMAIN PrimaryRows} = {df[i].Key : i \in Keyed}
        /\ \A r \in DOMAIN PrimaryRows :
               PrimaryRows[r].value
                   = InputSum({i \in Keyed : df[i].Key = PrimaryRows[r].key})
        /\ PrimaryTotal = InputSum(Keyed)

\* A Customer run on three rows, the first and the last of the same key:
\* two result rows, the value of that key the sum of its two cells.
C24_Witness ==
    /\ seg_out.kind = "Customer"
    /\ Len(df) = 3
    /\ df[1].Key = df[3].Key /\ df[2].Key # df[1].Key
    /\ df[1].Revenue = NumCell(1) /\ df[3].Revenue = NumCell(1)
    /\ Len(PrimaryRows) = 2
    /\ \E r \in DOMAIN PrimaryRows :
           PrimaryRows[r].key = df[1].Key /\ PrimaryRows[r].value = 2

---------------------------------------------------------------------------
(* The two copies of compute_eoq.                                          *)

\* C25: called with the same arguments, the copy of src/app.py and the
\* copy of the page either raise the same error with the same message or
\* return results equal in every field, the discount evaluation (or its
\* absence) included.
C25_CopiesEquivalent ==
    (page_out # NotCalled /\ app_out # NotCalled) =>
        /\ page_out.kind = app_out.kind
        /\ page_out.exc = app_out.exc
        /\ page_out.msg = app_out.msg
        /\ page_out.res = app_out.res

\* Both copies returned a result with a discount evaluation.
C25_Witness ==
    /\ page_out.kind = "return"
    /\ app_out.kind = "return"
    /\ page_out.res.discount # None
    /\ app_out.res.discount = page_out.res.discount
    /\ app_out.res.t_days = page_out.res.t_days

---------------------------------------------------------------------------
(* The base metrics and the discount arguments.                            *)

BaseMetrics ==
    {"EOQ", "h", "OrderingCost", "HoldingCost", "TLC", "t_months", "t_days", "ROP",
     "purchase_base", "total_base"}

\* Two outcomes end the same way and, when they return, agree on every
\* base metric.
SameBase(o1, o2) ==
    /\ o1.kind = o2.kind
    /\ o1.exc = o2.exc
    /\ o1.kind = "return" => \A f \in BaseMetrics : o1.res[f] = o2.res[f]

\* C26: a call without discount and a call with the same D, C, S, h_rate
\* and lead_time_months and any discount arguments end the same way and
\* return the same base metrics, in each copy.
C26_BaseMetricsIgnoreDiscount ==
    /\ page_again_out # NotCalled => SameBase(page_out, page_again_out)
    /\ app_again_out # NotCalled => SameBase(app_out, app_again_out)

\* The second call returned a discount evaluation that is accepted, the
\* first had none, and both have the same total_base.
C26_Witness ==
    /\ page_out.kind = "return"
    /\ page_out.res.discount = None
    /\ page_again_out.kind = "return"
    /\ page_again_out.res.discount # None
    /\ page_again_out.res.discount.accept
    /\ page_again_out.res.total_base = page_out.res.total_base

---------------------------------------------------------------------------
(* The inventory sawtooth.                                                 *)

\* The recorded levels of a plot obey the sawtooth rules for the result
\* they were drawn from.
SawtoothOf(inventory, out) ==
    inventory # <<>> =>
        /\ out.kind = "return"
        /\ Len(inventory) = Len(months)
        /\ \A i \in DOMAIN inventory :
               /\ \/ inventory[i] = out.res.EOQ
                  \/ Lt(out.res.ROP, inventory[i])
               /\ ~Lt(inventory[i], Fin(0))
        /\ Le(out.res.EOQ, out.res.ROP) =>
               \A i \in DOMAIN inventory : inventory[i] = out.res.EOQ

\* C27: every level recorded by the 13-month loop equals EOQ or is
\* strictly greater than ROP, none is negative, and when EOQ <= ROP every
\* recorded level equals EOQ; in both copies.
C27_InventorySawtooth ==
    /\ SawtoothOf(page_inventory, page_out)
    /\ SawtoothOf(app_inventory, app_out)

\* A plot in which the level fell to exactly ROP and was replenished before
\* being recorded, after months in which it stayed above ROP.
C27_Witness ==
    /\ page_inventory # <<>>
    /\ \E i \in 2..Len(page_inventory) :
           /\ page_inventory[i] = page_out.res.EOQ
           /\ page_inventory[i - 1] # page_out.res.EOQ
           /\ Lt(page_out.res.ROP, page_inventory[i - 1])
           /\ Sub(page_inventory[i - 1], Div(args.D, Fin(12))) = page_out.res.ROP

---------------------------------------------------------------------------
(* The stepper of the How-to guide.                                        *)

\* The step after n clicks on Next, each on an enabled button; -1 when a
\* click meets a disabled button.
RECURSIVE NextClicks(_, _)
NextClicks(step_idx, n) ==
    IF n = 0 THEN step_idx
    ELSE IF NextDisabled(step_idx) THEN -1
    ELSE NextClicks(NextStep(step_idx), n - 1)

\* C28: howto_step stays within 0 .. total - 1; in the guide Previous can
\* be clicked at every step but 0 and Next at every step but the last; the
\* last click moved the step by exactly one; and some number of Next clicks
\* leads from the current step to the last.
C28_HowToStepper ==
    /\ howto_step \in 0..(total - 1)
    /\ view_mode = "How to use" =>
           /\ (ENABLED ClickPrevious) <=> howto_step # 0
           /\ (ENABLED ClickNext) <=> howto_step # total - 1
    /\ howto_click.button = "Previous" =>
           /\ howto_click.step_idx # 0
           /\ howto_step = howto_click.step_idx - 1
    /\ howto_click.button = "Next" =>
           /\ howto_click.step_idx # total - 1
           /\ howto_step = howto_click.step_idx + 1
    /\ \E n \in 0..total : NextClicks(howto_step, n) = total - 1

\* The guide shows its last step, reached by a click on Next.
C28_Witness ==
    /\ view_mode = "How to use"
    /\ howto_step = total - 1
    /\ howto_click = [button |-> "Next", step_idx |-> total - 2]

=============================================================================
